---- MODULE Spec2Model ----
(***************************************************************************)
(* Model of the chat-context assembler of the aiuser cog (bz-cogs):        *)
(*   - MessagesList (aiuser/messages_list/messages.py): the thread under   *)
(*     construction, its consent / dedup / budget gating, the history      *)
(*     walk and reply expansion;                                           *)
(*   - _get_token_limit and the static table OTHER_MODELS_LIMITS.          *)
(* Text is modelled as a sequence of words (one token per word), model     *)
(* identifiers as sequences of characters.                                 *)
(***************************************************************************)
EXTENDS Integers, Sequences, FiniteSets, TLC

VARIABLES
    cfg,            \* guild / global configuration and the consent sets (read-only to the thread)
    channel,        \* the platform messages: id -> message; id 0 is the triggering message
    messages,       \* MessagesList.messages
    messages_ids,   \* MessagesList.messages_ids
    tokens,         \* MessagesList.tokens
    token_limit,    \* MessagesList.token_limit
    self_model,     \* MessagesList.model
    pc,             \* "settings" while settings commands run; otherwise the lifecycle
                    \* of the thread: "new", then "ready" (MessagesList),
                    \* "readyDM" (MessagesList_DM) or "readyMT" (MessageThread)
    calls,          \* number of calls made on the thread after _init
    last,           \* the last call made and what it returned / sent
    lim             \* input and result of the last _get_token_limit evaluation

threadVars == <<cfg, channel, messages, messages_ids, tokens, token_limit, self_model, pc, calls, last>>
vars == <<cfg, channel, messages, messages_ids, tokens, token_limit, self_model, pc, calls, last, lim>>

----------------------------------------------------------------------------
(* Character strings                                                        *)

\* s[i..j] for 1 <= i, j <= Len(s)
Slice(s, i, j) == [k \in 1..(j - i + 1) |-> s[i + k - 1]]

\* Python: sub in s
Contains(s, sub) ==
    \E i \in 1..(Len(s) - Len(sub) + 1) : Slice(s, i, i + Len(sub) - 1) = sub

\* positions of the separator character c in s
Positions(s, c) == {i \in 1..Len(s) : s[i] = c}

Max(S) == CHOOSE x \in S : \A y \in S : y <= x
Min(S) == CHOOSE x \in S : \A y \in S : x <= y

\* Python: s.split(c)[-1]
SplitLast(s, c) ==
    IF Positions(s, c) = {} THEN s
    ELSE Slice(s, Max(Positions(s, c)) + 1, Len(s))

\* Python: s.split(c)[0]
SplitFirst(s, c) ==
    IF Positions(s, c) = {} THEN s
    ELSE Slice(s, 1, Min(Positions(s, c)) - 1)

----------------------------------------------------------------------------
(* aiuser/common/constants.py                                               *)

OTHER_MODELS_LIMITS ==
    << [k |-> <<"g","p","t","-","3",".","5","-","t","u","r","b","o","-","1","1","0","6">>, v |-> 12000],
       [k |-> <<"g","p","t","-","4","-","1","1","0","6","-","p","r","e","v","i","e","w">>, v |-> 123000],
       [k |-> <<"g","p","t","-","4","-","v","i","s","i","o","n","-","p","r","e","v","i","e","w">>, v |-> 123000],
       [k |-> <<"c","l","a","u","d","e","-","2">>, v |-> 98000],
       [k |-> <<"c","l","a","u","d","e","-","i","n","s","t","a","n","t","-","v","1">>, v |-> 98000],
       [k |-> <<"d","o","l","p","h","i","n","-","m","i","x","t","r","a","l","-","8","x","7","b">>, v |-> 31000],
       [k |-> <<"m","i","s","t","r","a","l","-","t","i","n","y">>, v |-> 31000],
       [k |-> <<"m","i","s","t","r","a","l","-","s","m","a","l","l">>, v |-> 31000],
       [k |-> <<"m","i","s","t","r","a","l","-","m","e","d","i","u","m">>, v |-> 31000],
       [k |-> <<"t","o","p","p","y","-","m","-","7","b">>, v |-> 31000],
       [k |-> <<"n","o","u","s","-","c","a","p","y","b","a","r","a","-","3","4","b">>, v |-> 31000],
       [k |-> <<"s","t","r","i","p","e","d","h","y","e","n","a","-","h","e","s","s","i","a","n","-","7","b">>, v |-> 31000],
       [k |-> <<"s","t","r","i","p","e","d","h","y","e","n","a","-","n","o","u","s","-","7","b">>, v |-> 31000],
       [k |-> <<"m","y","t","h","o","m","i","s","t","-","7","b">>, v |-> 31000],
       [k |-> <<"c","i","n","e","m","a","t","i","k","a","-","7","b">>, v |-> 31000],
       [k |-> <<"m","i","x","t","r","a","l","-","8","x","7","b","-","i","n","s","t","r","u","c","t">>, v |-> 31000],
       [k |-> <<"m","i","x","t","r","a","l","-","8","x","7","b">>, v |-> 31000],
       [k |-> <<"g","e","m","i","n","i","-","p","r","o">>, v |-> 31000],
       [k |-> <<"g","e","m","i","n","i","-","p","r","o","-","v","i","s","i","o","n">>, v |-> 15000],
       [k |-> <<"r","w","k","v","-","5","-","w","o","r","l","d","-","3","b">>, v |-> 9000],
       [k |-> <<"r","w","k","v","-","5","-","3","b","-","a","i","-","t","o","w","n">>, v |-> 9000],
       [k |-> <<"n","o","r","o","m","a","i","d","-","m","i","x","t","r","a","l","-","8","x","7","b","-","i","n","s","t","r","u","c","t">>, v |-> 7000],
       [k |-> <<"b","a","g","e","l","-","3","4","b">>, v |-> 7000],
       [k |-> <<"p","p","l","x","-","7","b","-","c","h","a","t">>, v |-> 7000],
       [k |-> <<"n","o","r","o","m","a","i","d","-","2","0","b">>, v |-> 7000],
       [k |-> <<"p","a","l","m","-","2","-","c","h","a","t","-","b","i","s","o","n">>, v |-> 7000],
       [k |-> <<"c","l","a","u","d","e","-","v","1">>, v |-> 7000],
       [k |-> <<"c","l","a","u","d","e","-","1",".","2">>, v |-> 7000],
       [k |-> <<"c","l","a","u","d","e","-","i","n","s","t","a","n","t","-","1",".","0">>, v |-> 7000],
       [k |-> <<"c","o","d","e","l","l","a","m","a","-","3","4","b","-","i","n","s","t","r","u","c","t">>, v |-> 6000],
       [k |-> <<"s","y","n","t","h","i","a","-","7","0","b">>, v |-> 6000],
       [k |-> <<"m","i","s","t","r","a","l","-","7","b","-","i","n","s","t","r","u","c","t">>, v |-> 6000],
       [k |-> <<"m","i","s","t","r","a","l","-","7","b","-","o","p","e","n","o","r","c","a">>, v |-> 6000],
       [k |-> <<"m","y","t","h","a","l","i","o","n","-","1","3","b">>, v |-> 6000],
       [k |-> <<"x","w","i","n","-","l","m","-","7","0","b">>, v |-> 6000],
       [k |-> <<"g","o","l","i","a","t","h","-","1","2","0","b">>, v |-> 6000],
       [k |-> <<"w","e","a","v","e","r">>, v |-> 6000],
       [k |-> <<"p","a","l","m","-","2","-","c","o","d","e","c","h","a","t","-","b","i","s","o","n">>, v |-> 6000],
       [k |-> <<"o","p","e","n","c","h","a","t","-","7","b">>, v |-> 6000],
       [k |-> <<"r","e","m","m","-","s","l","e","r","p","-","l","2","-","1","3","b">>, v |-> 5000] >>
TableKeys == {OTHER_MODELS_LIMITS[i].k : i \in 1..Len(OTHER_MODELS_LIMITS)}

\* Python: OTHER_MODELS_LIMITS.get(model, default)
TableGet(model, default) ==
    IF model \in TableKeys
    THEN (CHOOSE e \in {OTHER_MODELS_LIMITS[i] : i \in 1..Len(OTHER_MODELS_LIMITS)} : e.k = model).v
    ELSE default

----------------------------------------------------------------------------
(* MessagesList._get_token_limit / MessagesList_DM._get_token_limit         *)

s_gpt35 == <<"g","p","t","-","3",".","5">>
s_gpt4 == <<"g","p","t","-","4">>
s_8k == <<"8","k">>
s_16k == <<"1","6","k">>
s_32k == <<"3","2","k">>
s_100k == <<"1","0","0","k">>
s_claude == <<"c","l","a","u","d","e">>
s_llama31 == <<"l","l","a","m","a","-","3",".","1">>

\* the chain of "if marker in model: limit = v" statements, in source order
FamilyLimit(model, withLlama) ==
    LET l0 == 3000
        l1 == IF Contains(model, s_gpt35) THEN 3000 ELSE l0
        l2 == IF Contains(model, s_gpt4) THEN 7000 ELSE l1
        l3 == IF Contains(model, s_8k) THEN 7000 ELSE l2
        l4 == IF Contains(model, s_16k) THEN 15000 ELSE l3
        l5 == IF Contains(model, s_32k) THEN 31000 ELSE l4
        l6 == IF Contains(model, s_100k) \/ Contains(model, s_claude) THEN 99000 ELSE l5
        l7 == IF withLlama /\ Contains(model, s_llama31) THEN 123000 ELSE l6
    IN  l7

\* _get_token_limit that looks the whole id up in the table (no split)
_get_token_limit_no_split(model) ==
    LET limit == FamilyLimit(model, TRUE)
    IN  IF model \in TableKeys THEN TableGet(model, limit) ELSE limit

_get_token_limit(model) ==
    LET limit == FamilyLimit(model, TRUE)
        name == SplitLast(model, "/")
    IN  IF name \in TableKeys THEN TableGet(name, limit) ELSE limit

DM_get_token_limit(model) ==
    LET limit == FamilyLimit(model, FALSE)
        name == SplitFirst(SplitLast(model, "/"), ":")
    IN  IF name \in TableKeys THEN TableGet(name, limit) ELSE limit

----------------------------------------------------------------------------
(* Platform messages, entries and text                                      *)

BotId == "bot"              \* bot.user.id
Bots == {"bot", "hook"}     \* authors whose author.bot flag is set
InitId == 0                 \* id of the triggering message (ctx.message)
NoRef == -1                 \* message.reference is None / not resolved to a Message
NoIndex == -1               \* index=None
NoTime == -1                \* start_time is None
NoRegex == "None"           \* cog.ignore_regex.get(guild.id, None) found nothing
SysSrc == -2                \* source tag of an Entry made by add_system
IMAGE_TOKENS == 255         \* tokens charged per image_url part

\* the ASCII keywords of the substring test in add_history (the others are CJK words)
Keywords == {"Polic", "prompts", "fake"}

\* tiktoken: one token per word of the text
Encode(text) == Len(text)

\* re.Pattern.search: the pattern is one word, found when the content has it
RegexSearch(pattern, content) == \E i \in 1..Len(content) : content[i] = pattern

TextContent(text) == [isList |-> FALSE, text |-> text, parts |-> <<>>]
ListContent(parts) == [isList |-> TRUE, text |-> <<>>, parts |-> parts]
TextPart(text) == [type |-> "text", text |-> text]
ImagePart == [type |-> "image_url", text |-> <<>>]

\* MessageEntry(role, content); src and at record, for the properties, the
\* message the Entry was derived from and the token total when it was inserted
MessageEntry(role, content, src) == [role |-> role, content |-> content, src |-> src, at |-> 0]

\* MessageConverter.convert: an image-bearing message gives a list-content Entry
\* (one caption text part, one image_url part per image) and, when it also has
\* text, a plain-text Entry; a text message gives one text Entry; anything else
\* gives nothing
convert(id) ==
    LET m == channel[id]
        role == IF m.author = BotId THEN "assistant" ELSE "user"
        img == MessageEntry(role,
                   ListContent(<<TextPart(<<"image">>)>> \o [k \in 1..m.images |-> ImagePart]), id)
        txt == MessageEntry(role, TextContent(m.content), id)
    IN  IF m.images > 0
        THEN (IF m.content # <<>> THEN <<img, txt>> ELSE <<img>>)
        ELSE IF m.content # <<>> THEN <<txt>> ELSE <<>>

\* bot.allowed_by_whitelist_blacklist(author)
allowed_by_whitelist_blacklist(author) == author \notin cfg.blocked

\* Python: lst.insert(i, e) for i >= 0
InsertAt(s, i, e) ==
    LET k == IF i > Len(s) THEN Len(s) ELSE i
    IN  SubSeq(s, 1, k) \o <<e>> \o SubSeq(s, k + 1, Len(s))

\* Python: index or 0
IndexOr0(index) == IF index = NoIndex THEN 0 ELSE index

----------------------------------------------------------------------------
(* MessagesList: a thread t is [messages, messages_ids, tokens, token_limit,  *)
(* model]                                                                   *)

\* MessagesList._add_tokens
_add_tokens(t, text) == [t EXCEPT !.tokens = @ + Encode(text)]

\* the token accounting of one inserted Entry (the body of add_msg's loop)
RECURSIVE add_items(_, _, _)
add_items(t, items, k) ==
    IF k > Len(items) THEN t
    ELSE IF items[k].type = "text" THEN add_items(_add_tokens(t, items[k].text), items, k + 1)
    ELSE IF items[k].type = "image_url"
         THEN add_items([t EXCEPT !.tokens = @ + IMAGE_TOKENS], items, k + 1)
    ELSE add_items(t, items, k + 1)

\* add_entry_tokens that counts every Entry as plain text
add_entry_tokens_as_text(t, entry) == _add_tokens(t, entry.content.text)

add_entry_tokens(t, entry) ==
    IF entry.content.isList THEN add_items(t, entry.content.parts, 1)
    ELSE _add_tokens(t, entry.content.text)

\* check_if_add with the opt-out test skipped for an author who opted in
check_if_add_optin_first(t, id, force) ==
    LET m == channel[id]
    IN  IF t.tokens > t.token_limit THEN FALSE
        ELSE IF id \in t.messages_ids /\ ~force THEN FALSE
        ELSE IF cfg.ignore_regex # NoRegex /\ RegexSearch(cfg.ignore_regex, m.content) THEN FALSE
        ELSE IF ~allowed_by_whitelist_blacklist(m.author) THEN FALSE
        ELSE IF m.author \in cfg.optout /\ m.author \notin cfg.optin THEN FALSE
        ELSE IF m.author # BotId /\ m.author \notin cfg.optin /\ ~cfg.optin_by_default THEN FALSE
        ELSE TRUE

\* check_if_add without the duplicate test
check_if_add_no_dedup(t, id, force) ==
    LET m == channel[id]
    IN  IF t.tokens > t.token_limit THEN FALSE
        ELSE IF cfg.ignore_regex # NoRegex /\ RegexSearch(cfg.ignore_regex, m.content) THEN FALSE
        ELSE IF ~allowed_by_whitelist_blacklist(m.author) THEN FALSE
        ELSE IF m.author \in cfg.optout THEN FALSE
        ELSE IF m.author # BotId /\ m.author \notin cfg.optin /\ ~cfg.optin_by_default THEN FALSE
        ELSE TRUE

\* check_if_add without the exemption of the bot's own messages
check_if_add_bot_not_exempt(t, id, force) ==
    LET m == channel[id]
    IN  IF t.tokens > t.token_limit THEN FALSE
        ELSE IF id \in t.messages_ids /\ ~force THEN FALSE
        ELSE IF cfg.ignore_regex # NoRegex /\ RegexSearch(cfg.ignore_regex, m.content) THEN FALSE
        ELSE IF ~allowed_by_whitelist_blacklist(m.author) THEN FALSE
        ELSE IF m.author \in cfg.optout THEN FALSE
        ELSE IF m.author \notin cfg.optin /\ ~cfg.optin_by_default THEN FALSE
        ELSE TRUE

\* MessagesList.check_if_add
check_if_add(t, id, force) ==
    LET m == channel[id]
    IN  IF t.tokens > t.token_limit THEN FALSE
        ELSE IF id \in t.messages_ids /\ ~force THEN FALSE
        ELSE IF cfg.ignore_regex # NoRegex /\ RegexSearch(cfg.ignore_regex, m.content) THEN FALSE
        ELSE IF ~allowed_by_whitelist_blacklist(m.author) THEN FALSE
        ELSE IF m.author \in cfg.optout THEN FALSE
        ELSE IF m.author # BotId /\ m.author \notin cfg.optin /\ ~cfg.optin_by_default THEN FALSE
        ELSE TRUE

\* the loop of add_msg without its budget test
RECURSIVE add_entries_unchecked(_, _, _, _, _)
add_entries_unchecked(t, id, index, converted, k) ==
    IF k > Len(converted) THEN [t |-> t, returned |-> FALSE]
    ELSE LET entry == [converted[k] EXCEPT !.at = t.tokens]
             t1 == [t EXCEPT !.messages = InsertAt(@, IndexOr0(index), entry),
                             !.messages_ids = @ \cup {id}]
         IN  add_entries_unchecked(add_entry_tokens(t1, entry), id, index, converted, k + 1)

\* the "for entry in converted" loop of add_msg; returned = the loop hit its return
RECURSIVE add_entries(_, _, _, _, _)
add_entries(t, id, index, converted, k) ==
    IF k > Len(converted) THEN [t |-> t, returned |-> FALSE]
    ELSE IF t.tokens > t.token_limit THEN [t |-> t, returned |-> TRUE]
    ELSE LET entry == [converted[k] EXCEPT !.at = t.tokens]
             t1 == [t EXCEPT !.messages = InsertAt(@, IndexOr0(index), entry),
                             !.messages_ids = @ \cup {id}]
         IN  add_entries(add_entry_tokens(t1, entry), id, index, converted, k + 1)

\* add_msg that records the id before the conversion is looked at
RECURSIVE add_msg_records_first(_, _, _, _)
add_msg_records_first(t, id, index, force) ==
    IF ~check_if_add(t, id, force) THEN t
    ELSE LET converted == convert(id)
             t0 == [t EXCEPT !.messages_ids = @ \cup {id}]
         IN  IF converted = <<>> THEN t0
             ELSE LET r == add_entries(t0, id, index, converted, 1)
                  IN  IF r.returned THEN r.t
                      ELSE IF channel[id].reference # NoRef /\ channel[id].author # BotId
                           THEN add_msg_records_first(r.t, channel[id].reference, 0, FALSE)
                           ELSE r.t

\* add_msg whose reply expansion passes force=True
RECURSIVE add_msg_forced_expansion(_, _, _, _)
add_msg_forced_expansion(t, id, index, force) ==
    IF ~check_if_add(t, id, force) THEN t
    ELSE LET converted == convert(id)
         IN  IF converted = <<>> THEN t
             ELSE LET r == add_entries(t, id, index, converted, 1)
                  IN  IF r.returned THEN r.t
                      ELSE IF channel[id].reference # NoRef /\ channel[id].author # BotId
                           THEN add_msg_forced_expansion(r.t, channel[id].reference, 0, TRUE)
                           ELSE r.t

\* MessagesList.add_msg
RECURSIVE add_msg(_, _, _, _)
add_msg(t, id, index, force) ==
    IF ~check_if_add(t, id, force) THEN t
    ELSE LET converted == convert(id)
         IN  IF converted = <<>> THEN t
             ELSE LET r == add_entries(t, id, index, converted, 1)
                  IN  IF r.returned THEN r.t
                      ELSE IF channel[id].reference # NoRef /\ channel[id].author # BotId
                           THEN add_msg(r.t, channel[id].reference, 0, FALSE)
                           ELSE r.t

\* MessagesList.add_system
add_system(t, content, index) ==
    IF t.tokens > t.token_limit THEN t
    ELSE LET entry == [MessageEntry("system", TextContent(content), SysSrc) EXCEPT !.at = t.tokens]
         IN  _add_tokens([t EXCEPT !.messages = InsertAt(@, IndexOr0(index), entry)], content)

\* MessagesList._is_valid_time_gap
_is_valid_time_gap(id, next_id, max_seconds_gap) ==
    LET d == channel[id].created_at - channel[next_id].created_at
        seconds_diff == IF d < 0 THEN -d ELSE d
    IN  ~(seconds_diff > max_seconds_gap)

\* channel.history(limit=limit + 1, before=init_message, after=start_time,
\* oldest_first=False): ids 1..n of the channel are the messages before the
\* triggering one, newest first
RECURSIVE SelectSeq2(_, _, _)
SelectSeq2(n, after, k) ==
    IF k > n THEN <<>>
    ELSE IF after = NoTime \/ channel[k].created_at > after
         THEN <<k>> \o SelectSeq2(n, after, k + 1)
         ELSE SelectSeq2(n, after, k + 1)

Take(s, n) == SubSeq(s, 1, IF n < Len(s) THEN n ELSE Len(s))

_get_past_messages(limit, start_time) ==
    Take(SelectSeq2(Cardinality(DOMAIN channel) - 1, start_time, 1), limit + 1)

\* the keyword test of add_history on one message
HasKeyword(id) == \E i \in 1..Len(channel[id].content) : channel[id].content[i] \in Keywords

\* the "for past_message in past_messages: ... past_messages.remove(past_message)"
\* loop: the list iterator is at 1-based position k of the list being mutated
RECURSIVE keyword_filter(_, _, _)
keyword_filter(lst, k, rm_count) ==
    IF k > Len(lst) THEN [list |-> lst, rm_count |-> rm_count]
    ELSE IF HasKeyword(lst[k])
         THEN keyword_filter(SubSeq(lst, 1, k - 1) \o SubSeq(lst, k + 1, Len(lst)), k + 1, rm_count + 1)
         ELSE keyword_filter(lst, k + 1, rm_count)

\* _get_unopted_users that forgets to leave out the users who opted out
_get_unopted_users_with_optout(msgs) ==
    IF cfg.optin_by_default THEN {}
    ELSE {channel[msgs[i]].author : i \in
            {j \in 1..Len(msgs) : /\ channel[msgs[j]].author \notin Bots
                                  /\ channel[msgs[j]].author \notin cfg.optin}}

\* MessagesList._get_unopted_users
_get_unopted_users(msgs) ==
    IF cfg.optin_by_default THEN {}
    ELSE {channel[msgs[i]].author : i \in
            {j \in 1..Len(msgs) : /\ channel[msgs[j]].author \notin Bots
                                  /\ channel[msgs[j]].author \notin cfg.optin
                                  /\ channel[msgs[j]].author \notin cfg.optout}}

\* the opt-in notice test of _process_past_messages
IsOptinEmbed(id) == channel[id].author = BotId /\ channel[id].optin_embed

\* a walk over range(len(past_messages)): the oldest candidate is walked too
RECURSIVE _process_past_messages_whole_list(_, _, _, _, _)
_process_past_messages_whole_list(t, past, max_seconds_gap, i, walked) ==
    IF i > Len(past) THEN [t |-> t, walked |-> walked]
    ELSE IF t.tokens > t.token_limit THEN [t |-> t, walked |-> walked]
    ELSE IF IsOptinEmbed(past[i])
         THEN _process_past_messages_whole_list(t, past, max_seconds_gap, i + 1, walked)
    ELSE IF i < Len(past) /\ _is_valid_time_gap(past[i], past[i + 1], max_seconds_gap)
         THEN _process_past_messages_whole_list(add_msg(t, past[i], NoIndex, FALSE), past,
                                                max_seconds_gap, i + 1, Append(walked, past[i]))
    ELSE [t |-> add_msg(t, past[i], NoIndex, FALSE), walked |-> Append(walked, past[i])]

\* MessagesList._process_past_messages; i is the 1-based loop position and
\* walked the ids passed to add_msg so far
RECURSIVE _process_past_messages(_, _, _, _, _)
_process_past_messages(t, past, max_seconds_gap, i, walked) ==
    IF i > Len(past) - 1 THEN [t |-> t, walked |-> walked]
    ELSE IF t.tokens > t.token_limit THEN [t |-> t, walked |-> walked]
    ELSE IF IsOptinEmbed(past[i])
         THEN _process_past_messages(t, past, max_seconds_gap, i + 1, walked)
    ELSE IF _is_valid_time_gap(past[i], past[i + 1], max_seconds_gap)
         THEN _process_past_messages(add_msg(t, past[i], NoIndex, FALSE), past,
                                     max_seconds_gap, i + 1, Append(walked, past[i]))
    ELSE [t |-> add_msg(t, past[i], NoIndex, FALSE), walked |-> Append(walked, past[i])]

\* MessagesList.add_history; draw is random.random() in hundredths.
\* raised: past_messages[0] on the list the keyword loop emptied (IndexError)
\* fetched: what _get_past_messages returned; log: what the call did to the
\* outside, in order ("excluded": the exclusion message, "walk": the call of
\* _process_past_messages, "notice": _send_optin_embed)
HistoryResult(t, past, raised, rm_count, notices, walked, fetched, log) ==
    [t |-> t, past |-> past, raised |-> raised, rm_count |-> rm_count,
     notices |-> notices, walked |-> walked, fetched |-> fetched, log |-> log]

\* add_history that sends unconditionally from 3 unopted users on
add_history_three_or_more(t, draw) ==
    LET limit == cfg.messages_backread
        max_seconds_gap == cfg.messages_backread_seconds
        start_time == IF cfg.start_time # NoTime THEN cfg.start_time - 1 ELSE NoTime
        fetched == _get_past_messages(limit, start_time)
        f == keyword_filter(fetched, 1, 0)
        past_messages == f.list
        excluded == IF f.rm_count > 0 THEN <<"excluded">> ELSE <<>>
    IN  IF fetched = <<>> THEN HistoryResult(t, <<>>, FALSE, 0, <<>>, <<>>, fetched, <<>>)
        ELSE IF past_messages = <<>>
             THEN HistoryResult(t, <<>>, TRUE, f.rm_count, <<>>, <<>>, fetched, excluded)
        ELSE IF ~_is_valid_time_gap(InitId, past_messages[1], max_seconds_gap)
             THEN HistoryResult(t, past_messages, FALSE, f.rm_count, <<>>, <<>>, fetched, excluded)
        ELSE LET users == _get_unopted_users(Take(past_messages, 10))
                 w == _process_past_messages(t, past_messages, max_seconds_gap, 1, <<>>)
                 send == /\ users # {}
                         /\ ~cfg.optin_disable_embed
                         /\ (draw <= 33 \/ Cardinality(users) >= 3)
             IN  HistoryResult(w.t, past_messages, FALSE, f.rm_count,
                               IF send THEN <<users>> ELSE <<>>, w.walked, fetched,
                               excluded \o <<"walk">> \o (IF send THEN <<"notice">> ELSE <<>>))

add_history(t, draw) ==
    LET limit == cfg.messages_backread
        max_seconds_gap == cfg.messages_backread_seconds
        start_time == IF cfg.start_time # NoTime THEN cfg.start_time - 1 ELSE NoTime
        fetched == _get_past_messages(limit, start_time)
        f == keyword_filter(fetched, 1, 0)
        past_messages == f.list
        excluded == IF f.rm_count > 0 THEN <<"excluded">> ELSE <<>>
    IN  IF fetched = <<>> THEN HistoryResult(t, <<>>, FALSE, 0, <<>>, <<>>, fetched, <<>>)
        ELSE IF past_messages = <<>>
             THEN HistoryResult(t, <<>>, TRUE, f.rm_count, <<>>, <<>>, fetched, excluded)
        ELSE IF ~_is_valid_time_gap(InitId, past_messages[1], max_seconds_gap)
             THEN HistoryResult(t, past_messages, FALSE, f.rm_count, <<>>, <<>>, fetched, excluded)
        ELSE LET users == _get_unopted_users(Take(past_messages, 10))
                 w == _process_past_messages(t, past_messages, max_seconds_gap, 1, <<>>)
                 send == /\ users # {}
                         /\ ~cfg.optin_disable_embed
                         /\ (draw <= 33 \/ Cardinality(users) > 3)
             IN  HistoryResult(w.t, past_messages, FALSE, f.rm_count,
                               IF send THEN <<users>> ELSE <<>>, w.walked, fetched,
                               excluded \o <<"walk">> \o (IF send THEN <<"notice">> ELSE <<>>))

\* MessagesList._pick_prompt for the author of the triggering message; an
\* unset prompt is the empty text
DEFAULT_PROMPT == <<"helpful", "assistant", "bugbot">>

FirstConfiguredRole(roles) ==
    IF \E i \in 1..Len(roles) : roles[i].configured
    THEN roles[Min({i \in 1..Len(roles) : roles[i].configured})].prompt
    ELSE <<>>

Or(a, b) == IF a # <<>> THEN a ELSE b

\* _pick_prompt that looks at the guild prompt before the channel prompt
_pick_prompt_guild_first ==
    Or(cfg.member_prompt,
       Or(FirstConfiguredRole(cfg.author_roles),
          Or(cfg.guild_prompt, Or(cfg.channel_prompt, Or(cfg.global_prompt, DEFAULT_PROMPT)))))

_pick_prompt ==
    Or(cfg.member_prompt,
       Or(FirstConfiguredRole(cfg.author_roles),
          Or(cfg.channel_prompt, Or(cfg.guild_prompt, Or(cfg.global_prompt, DEFAULT_PROMPT)))))

\* format_variables(ctx, prompt): the template variable {botname} is replaced
\* by the bot's display name
format_variables(text) ==
    [i \in 1..Len(text) |-> IF text[i] = "{botname}" THEN "bugbot" ELSE text[i]]

\* ScanImageMode.LLM.value
ScanImageMode_LLM == "supported-llm"

\* attachments and attachments[0].content_type.startswith('image/')
FirstIsImage(attachments) == attachments # <<>> /\ attachments[1][1] = "image"

\* _check_if_inital_img that does not look at ctx.interaction
_check_if_inital_img_any_ctx ==
    IF ~cfg.scan_images \/ cfg.scan_images_mode # ScanImageMode_LLM THEN FALSE
    ELSE IF FirstIsImage(channel[InitId].attachments) THEN TRUE
    ELSE IF channel[InitId].reference # NoRef
         THEN FirstIsImage(channel[channel[InitId].reference].attachments)
         ELSE FALSE

_check_if_inital_img ==
    IF cfg.interaction \/ ~cfg.scan_images \/ cfg.scan_images_mode # ScanImageMode_LLM THEN FALSE
    ELSE IF FirstIsImage(channel[InitId].attachments) THEN TRUE
    ELSE IF channel[InitId].reference # NoRef
         THEN FirstIsImage(channel[channel[InitId].reference].attachments)
         ELSE FALSE

\* _init that adds the triggering message whether or not a prompt is given
_init_always_adds(prompt) ==
    LET limit == IF cfg.custom_model_tokens_limit # 0
                 THEN cfg.custom_model_tokens_limit
                 ELSE _get_token_limit(cfg.model)
        t0 == [messages |-> <<>>, messages_ids |-> {}, tokens |-> 0, token_limit |-> limit,
               model |-> cfg.model]
        t1 == add_msg(t0, InitId, NoIndex, FALSE)
        bot_prompt == Or(prompt, _pick_prompt)
        t2 == add_system(t1, format_variables(bot_prompt), NoIndex)
    IN  IF _check_if_inital_img THEN [t2 EXCEPT !.model = cfg.scan_images_model] ELSE t2

\* MessagesList.__init__ followed by MessagesList._init(prompt)
_init(prompt) ==
    LET limit == IF cfg.custom_model_tokens_limit # 0
                 THEN cfg.custom_model_tokens_limit
                 ELSE _get_token_limit(cfg.model)
        t0 == [messages |-> <<>>, messages_ids |-> {}, tokens |-> 0, token_limit |-> limit,
               model |-> cfg.model]
        t1 == IF prompt = <<>> THEN add_msg(t0, InitId, NoIndex, FALSE) ELSE t0
        bot_prompt == Or(prompt, _pick_prompt)
        t2 == add_system(t1, format_variables(bot_prompt), NoIndex)
    IN  IF _check_if_inital_img THEN [t2 EXCEPT !.model = cfg.scan_images_model] ELSE t2

----------------------------------------------------------------------------
(* MessagesList_DM: the same thread record, the methods of the DM variant   *)

\* str(content) as MessagesList_DM._add_tokens tokenizes it: a text is its own
\* words; the repr of a list content has, for every part, the key and value of
\* its type, then the words of a text part or the url of an image part
RECURSIVE StrParts(_, _)
StrParts(parts, k) ==
    IF k > Len(parts) THEN <<>>
    ELSE (IF parts[k].type = "text" THEN <<"type", "text">> \o parts[k].text
          ELSE <<"type", "image_url", "url">>) \o StrParts(parts, k + 1)

Str(content) == IF content.isList THEN StrParts(content.parts, 1) ELSE content.text

\* MessagesList_DM._add_tokens
DM_add_tokens(t, content) == [t EXCEPT !.tokens = @ + Encode(Str(content))]

\* MessagesList_DM.check_if_add
DM_check_if_add(t, id, force) ==
    LET m == channel[id]
    IN  IF t.tokens > t.token_limit THEN FALSE
        ELSE IF id \in t.messages_ids /\ ~force THEN FALSE
        ELSE IF cfg.ignore_regex # NoRegex /\ RegexSearch(cfg.ignore_regex, m.content) THEN FALSE
        ELSE IF ~allowed_by_whitelist_blacklist(m.author) THEN FALSE
        ELSE IF m.author \in cfg.optout THEN FALSE
        ELSE IF m.author # BotId /\ m.author \notin cfg.optin /\ ~cfg.optin_by_default THEN FALSE
        ELSE TRUE

\* the "for entry in converted" loop of MessagesList_DM.add_msg
RECURSIVE DM_add_entries(_, _, _, _, _)
DM_add_entries(t, id, index, converted, k) ==
    IF k > Len(converted) THEN t
    ELSE LET entry == [converted[k] EXCEPT !.at = t.tokens]
             t1 == [t EXCEPT !.messages = InsertAt(@, IndexOr0(index), entry),
                             !.messages_ids = @ \cup {id}]
         IN  DM_add_entries(DM_add_tokens(t1, entry.content), id, index, converted, k + 1)

\* MessagesList_DM.add_msg
RECURSIVE DM_add_msg(_, _, _, _)
DM_add_msg(t, id, index, force) ==
    IF ~DM_check_if_add(t, id, force) THEN t
    ELSE LET converted == convert(id)
         IN  IF converted = <<>> THEN t
             ELSE LET t1 == DM_add_entries(t, id, index, converted, 1)
                  IN  IF channel[id].reference # NoRef /\ channel[id].author # BotId
                      THEN DM_add_msg(t1, channel[id].reference, 0, FALSE)
                      ELSE t1

\* MessagesList_DM.add_system
DM_add_system(t, content, index) ==
    IF t.tokens > t.token_limit THEN t
    ELSE LET entry == [MessageEntry("system", TextContent(content), SysSrc) EXCEPT !.at = t.tokens]
         IN  DM_add_tokens([t EXCEPT !.messages = InsertAt(@, IndexOr0(index), entry)],
                           TextContent(content))

\* MessagesList_DM._get_past_messages
DM_get_past_messages(limit, start_time) ==
    Take(SelectSeq2(Cardinality(DOMAIN channel) - 1, start_time, 1), limit + 1)

\* MessagesList_DM._get_unopted_users
DM_get_unopted_users(msgs) ==
    IF cfg.optin_by_default THEN {}
    ELSE {channel[msgs[i]].author : i \in
            {j \in 1..Len(msgs) : /\ channel[msgs[j]].author \notin Bots
                                  /\ channel[msgs[j]].author \notin cfg.optin
                                  /\ channel[msgs[j]].author \notin cfg.optout}}

\* MessagesList_DM._is_valid_time_gap
DM_is_valid_time_gap(id, next_id, max_seconds_gap) ==
    LET d == channel[id].created_at - channel[next_id].created_at
        seconds_diff == IF d < 0 THEN -d ELSE d
    IN  ~(seconds_diff > max_seconds_gap)

\* MessagesList_DM._process_past_messages
RECURSIVE DM_process_past_messages(_, _, _, _, _)
DM_process_past_messages(t, past, max_seconds_gap, i, walked) ==
    IF i > Len(past) - 1 THEN [t |-> t, walked |-> walked]
    ELSE IF t.tokens > t.token_limit THEN [t |-> t, walked |-> walked]
    ELSE IF IsOptinEmbed(past[i])
         THEN DM_process_past_messages(t, past, max_seconds_gap, i + 1, walked)
    ELSE IF DM_is_valid_time_gap(past[i], past[i + 1], max_seconds_gap)
         THEN DM_process_past_messages(DM_add_msg(t, past[i], NoIndex, FALSE), past,
                                       max_seconds_gap, i + 1, Append(walked, past[i]))
    ELSE [t |-> DM_add_msg(t, past[i], NoIndex, FALSE), walked |-> Append(walked, past[i])]

\* DM add_history that does not look at optin_disable_embed
DM_add_history_embed_always(t) ==
    LET limit == cfg.messages_backread
        max_seconds_gap == cfg.messages_backread_seconds
        start_time == IF cfg.start_time # NoTime THEN cfg.start_time + 1 ELSE NoTime
        past_messages == DM_get_past_messages(limit, start_time)
    IN  IF past_messages = <<>> THEN HistoryResult(t, <<>>, FALSE, 0, <<>>, <<>>, <<>>, <<>>)
        ELSE IF ~DM_is_valid_time_gap(InitId, past_messages[1], max_seconds_gap)
             THEN HistoryResult(t, past_messages, FALSE, 0, <<>>, <<>>, past_messages, <<>>)
        ELSE LET users == DM_get_unopted_users(past_messages)
                 w == DM_process_past_messages(t, past_messages, max_seconds_gap, 1, <<>>)
                 send == users # {}
             IN  HistoryResult(w.t, past_messages, FALSE, 0,
                               IF send THEN <<users>> ELSE <<>>, w.walked, past_messages,
                               <<"walk">> \o (IF send THEN <<"notice">> ELSE <<>>))

\* MessagesList_DM.add_history
DM_add_history(t) ==
    LET limit == cfg.messages_backread
        max_seconds_gap == cfg.messages_backread_seconds
        start_time == IF cfg.start_time # NoTime THEN cfg.start_time + 1 ELSE NoTime
        past_messages == DM_get_past_messages(limit, start_time)
    IN  IF past_messages = <<>> THEN HistoryResult(t, <<>>, FALSE, 0, <<>>, <<>>, <<>>, <<>>)
        ELSE IF ~DM_is_valid_time_gap(InitId, past_messages[1], max_seconds_gap)
             THEN HistoryResult(t, past_messages, FALSE, 0, <<>>, <<>>, past_messages, <<>>)
        ELSE LET users == DM_get_unopted_users(past_messages)
                 w == DM_process_past_messages(t, past_messages, max_seconds_gap, 1, <<>>)
                 send == users # {} /\ ~cfg.optin_disable_embed
             IN  HistoryResult(w.t, past_messages, FALSE, 0,
                               IF send THEN <<users>> ELSE <<>>, w.walked, past_messages,
                               <<"walk">> \o (IF send THEN <<"notice">> ELSE <<>>))

\* MessagesList_DM._pick_prompt: custom_text_prompt of the one fixed guild
DM_pick_prompt == cfg.dm_guild_prompt

\* format_variables_DM(ctx, prompt): as format_variables
format_variables_DM(text) ==
    [i \in 1..Len(text) |-> IF text[i] = "{botname}" THEN "bugbot" ELSE text[i]]

\* MessagesList_DM._check_if_inital_img
DM_check_if_inital_img ==
    IF cfg.interaction \/ ~cfg.scan_images \/ cfg.scan_images_mode # ScanImageMode_LLM THEN FALSE
    ELSE IF FirstIsImage(channel[InitId].attachments) THEN TRUE
    ELSE IF channel[InitId].reference # NoRef
         THEN FirstIsImage(channel[channel[InitId].reference].attachments)
         ELSE FALSE

\* MessagesList_DM.__init__ followed by MessagesList_DM._init(prompt)
DM_init(prompt) ==
    LET t0 == [messages |-> <<>>, messages_ids |-> {}, tokens |-> 0,
               token_limit |-> DM_get_token_limit(cfg.model), model |-> cfg.model]
        t1 == IF prompt = <<>> THEN DM_add_msg(t0, InitId, NoIndex, FALSE) ELSE t0
        bot_prompt == Or(prompt, DM_pick_prompt)
        t2 == DM_add_system(t1, format_variables_DM(bot_prompt), NoIndex)
    IN  IF DM_check_if_inital_img THEN [t2 EXCEPT !.model = cfg.scan_images_model] ELSE t2

----------------------------------------------------------------------------
(* MessageThread (aiuser/prompts/common/messagethread.py): the same thread  *)
(* record; token_limit is not a field of this class                         *)

\* the texts made by aiuser.prompts.common.helpers and the cached rendering
\* of a message (cached_messages[message.id])
format_text_content(id) == <<channel[id].author, "said">> \o channel[id].content
format_sticker_content(id) == <<channel[id].author, "sent", "sticker">>
format_embed_content(id) == <<channel[id].author, "sent", "embed">>
cached_rendering(id) == <<channel[id].author, "sent", "image">>
is_embed_valid(id) == channel[id].embed_valid

\* OPENAI_MODEL_TOKEN_LIMIT.get(model, default): the table entry of the
\* configured model when it has one
OPENAI_MODEL_TOKEN_LIMIT_get(m, default) ==
    IF cfg.openai_table_limit # 0 THEN cfg.openai_table_limit ELSE default

\* MessageThread._add_tokens; initialize_encoding sets the model
MT_add_tokens(t, content) == [t EXCEPT !.tokens = @ + Encode(content), !.model = cfg.model]

\* MessageThread._get_insertion_index
_get_insertion_index(t, prepend) == IF prepend THEN 0 ELSE Len(t.messages)

\* MessageThread.add_msg
MT_add_msg(t, content, id, prepend, force) ==
    LET m == channel[id]
    IN  IF id \in t.messages_ids /\ ~force THEN t
        ELSE IF ~allowed_by_whitelist_blacklist(m.author) THEN t
        ELSE IF m.author \in cfg.optout THEN t
        ELSE IF m.author \notin cfg.optin /\ ~cfg.optin_by_default THEN t
        ELSE LET role == IF m.author # BotId THEN "user" ELSE "assistant"
                 messages_item == [MessageEntry(role, TextContent(content), id)
                                     EXCEPT !.at = t.tokens]
                 insertion_index == _get_insertion_index(t, prepend)
             IN  MT_add_tokens([t EXCEPT !.messages = InsertAt(@, insertion_index, messages_item),
                                         !.messages_ids = @ \cup {id}], content)

\* MessageThread.add_system
MT_add_system(t, content, prepend) ==
    LET messages_item == [MessageEntry("system", TextContent(content), SysSrc)
                            EXCEPT !.at = t.tokens]
        insertion_index == _get_insertion_index(t, prepend)
    IN  MT_add_tokens([t EXCEPT !.messages = InsertAt(@, insertion_index, messages_item)], content)

\* _add_contextual_message that tests the attachments before the cached rendering
_add_contextual_message_attachments_first(t, id) ==
    LET m == channel[id]
        t1 == IF m.cached
              THEN LET a == MT_add_msg(t, cached_rendering(id), id, TRUE, FALSE)
                   IN  IF m.content # <<>>
                       THEN MT_add_msg(a, format_text_content(id), id, TRUE, TRUE)
                       ELSE a
              ELSE t
    IN  IF cfg.ignore_regex # NoRegex /\ RegexSearch(cfg.ignore_regex, m.content) THEN t
        ELSE IF m.stickers THEN MT_add_msg(t, format_sticker_content(id), id, TRUE, FALSE)
        ELSE IF m.attachments # <<>>
             THEN MT_add_system(t, <<"A", "message", "was", "skipped">>, TRUE)
        ELSE IF m.embeds /\ is_embed_valid(id)
             THEN MT_add_msg(t1, format_embed_content(id), id, TRUE, FALSE)
        ELSE IF m.content # <<>> THEN MT_add_msg(t1, format_text_content(id), id, TRUE, FALSE)
        ELSE t1

\* MessageThread._add_contextual_message
_add_contextual_message(t, id) ==
    LET m == channel[id]
        t1 == IF m.cached
              THEN LET a == MT_add_msg(t, cached_rendering(id), id, TRUE, FALSE)
                   IN  IF m.content # <<>>
                       THEN MT_add_msg(a, format_text_content(id), id, TRUE, TRUE)
                       ELSE a
              ELSE t
    IN  IF cfg.ignore_regex # NoRegex /\ RegexSearch(cfg.ignore_regex, m.content) THEN t
        ELSE IF m.stickers THEN MT_add_msg(t, format_sticker_content(id), id, TRUE, FALSE)
        ELSE IF ~m.cached /\ m.attachments # <<>>
             THEN MT_add_system(t, <<"A", "message", "was", "skipped">>, TRUE)
        ELSE IF m.embeds /\ is_embed_valid(id)
             THEN MT_add_msg(t1, format_embed_content(id), id, TRUE, FALSE)
        ELSE IF m.content # <<>> THEN MT_add_msg(t1, format_text_content(id), id, TRUE, FALSE)
        ELSE t1

\* MessageThread._valid_time_between_messages
_valid_time_between_messages(past_messages, index, max_gap) ==
    LET d == channel[past_messages[index]].created_at - channel[past_messages[index + 1]].created_at
        time_between_messages == IF d < 0 THEN -d ELSE d
    IN  ~(time_between_messages > max_gap)

\* the consent loop of create_context without the optin_by_default test
RECURSIVE MT_consent_loop_no_default(_, _)
MT_consent_loop_no_default(past_messages, k) ==
    IF k > Len(past_messages) THEN FALSE
    ELSE IF /\ channel[past_messages[k]].author \notin Bots
            /\ channel[past_messages[k]].author \notin cfg.optin
            /\ channel[past_messages[k]].author \notin cfg.optout
         THEN TRUE
    ELSE MT_consent_loop_no_default(past_messages, k + 1)

\* the "for message in past_messages" consent loop of create_context: TRUE
\* when it sends the opt-in embed (it sends at most one, then breaks)
RECURSIVE MT_consent_loop(_, _)
MT_consent_loop(past_messages, k) ==
    IF k > Len(past_messages) THEN FALSE
    ELSE IF cfg.optin_by_default THEN FALSE
    ELSE IF /\ channel[past_messages[k]].author \notin Bots
            /\ channel[past_messages[k]].author \notin cfg.optin
            /\ channel[past_messages[k]].author \notin cfg.optout
         THEN TRUE
    ELSE MT_consent_loop(past_messages, k + 1)

\* self.model.startswith("gpt-")
StartsWithGpt(m) == Len(m) >= 4 /\ SubSeq(m, 1, 4) = <<"g", "p", "t", "-">>

\* the walk of create_context; i is the 1-based loop position
RECURSIVE MT_walk(_, _, _, _, _)
MT_walk(t, past_messages, max_seconds_gap, i, walked) ==
    IF i > Len(past_messages) - 1 THEN [t |-> t, walked |-> walked]
    ELSE IF StartsWithGpt(t.model) /\ t.tokens > OPENAI_MODEL_TOKEN_LIMIT_get(t.model, 3000)
         THEN [t |-> t, walked |-> walked]
    ELSE IF _valid_time_between_messages(past_messages, i, max_seconds_gap)
         THEN MT_walk(_add_contextual_message(t, past_messages[i]), past_messages,
                      max_seconds_gap, i + 1, Append(walked, past_messages[i]))
    ELSE [t |-> _add_contextual_message(t, past_messages[i]),
          walked |-> Append(walked, past_messages[i])]

\* MessageThread.create_context; the opt-in embed of this class names no user
create_context(t) ==
    LET limit == cfg.messages_backread
        max_seconds_gap == cfg.messages_backread_seconds
        start_time == IF cfg.start_time # NoTime THEN cfg.start_time + 1 ELSE NoTime
        t0 == IF t.model = <<>> THEN [t EXCEPT !.model = cfg.model] ELSE t
        past_messages == Take(SelectSeq2(Cardinality(DOMAIN channel) - 1, start_time, 1), limit)
        d == channel[past_messages[1]].created_at - channel[InitId].created_at
    IN  IF past_messages # <<>> /\ (IF d < 0 THEN -d ELSE d) > max_seconds_gap
        THEN HistoryResult(t0, past_messages, FALSE, 0, <<>>, <<>>, past_messages, <<>>)
        ELSE LET send == MT_consent_loop(past_messages, 1)
                 w == MT_walk(t0, past_messages, max_seconds_gap, 1, <<>>)
             IN  HistoryResult(w.t, past_messages, FALSE, 0,
                               IF send THEN <<{}>> ELSE <<>>, w.walked, past_messages,
                               (IF send THEN <<"notice">> ELSE <<>>) \o <<"walk">>)

----------------------------------------------------------------------------
(* Bounds and input sets                                                    *)

MaxCalls == 2       \* calls made on a thread after _init
MaxHist == 3        \* messages in the channel before the triggering one

Prompts == {<<>>, <<"be", "{botname}">>}     \* the prompt argument of _init
SystemTexts == {<<"note">>}              \* content passed to add_system
Indexes == {NoIndex, 1}                  \* index passed to add_msg / add_system
Draws == {33, 34}                        \* random.random() in hundredths

\* a content type is <<type, subtype>>; the image attachments of a message are
\* the ones its conversion turns into image parts
ImagePng == <<"image", "png">>
TextPlain == <<"text", "plain">>

Msg(author, created_at, reference, content, images, optin_embed) ==
    [author |-> author, created_at |-> created_at, reference |-> reference,
     content |-> content, images |-> images, optin_embed |-> optin_embed,
     attachments |-> [k \in 1..images |-> ImagePng],
     stickers |-> FALSE, cached |-> FALSE, embeds |-> optin_embed, embed_valid |-> FALSE]

BaseCfg ==
    [optin |-> {"A"}, optout |-> {"B"}, optin_by_default |-> FALSE,
     optin_disable_embed |-> FALSE, blocked |-> {}, ignore_regex |-> NoRegex,
     messages_backread |-> MaxHist - 1, messages_backread_seconds |-> 10,
     start_time |-> NoTime, custom_model_tokens_limit |-> 0,
     model |-> <<"g","p","t","-","4">>,
     member_prompt |-> <<>>, author_roles |-> <<>>, channel_prompt |-> <<>>,
     guild_prompt |-> <<>>, global_prompt |-> <<>>,
     interaction |-> FALSE, can_reply |-> FALSE,
     scan_images |-> FALSE, scan_images_mode |-> "ai-horde",
     dm_guild_prompt |-> <<"dm", "{botname}">>,
     openai_table_limit |-> 0,
     filter_responses |-> FALSE, global_filter_responses |-> FALSE,
     provider_models |-> {},
     channels_whitelist |-> <<>>, reply_percent |-> 50, cached_options |-> <<>>,
     scan_images_model |-> <<"g","p","t","-","4","-","v","i","s","i","o","n","-","p","r","e","v","i","e","w">>]

Thread == [messages |-> messages, messages_ids |-> messages_ids,
           tokens |-> tokens, token_limit |-> token_limit, model |-> self_model]

NoCall ==
    [op |-> "none", id |-> NoRef, force |-> FALSE, index |-> NoIndex, dup |-> FALSE,
     ret |-> FALSE, raised |-> FALSE, rm_count |-> 0, notices |-> <<>>,
     walked |-> <<>>, past |-> <<>>, draw |-> 0, prompt |-> <<>>,
     fetched |-> <<>>, log |-> <<>>, value |-> <<>>, old |-> <<>>, response |-> <<>>]

IdleLim == [fn |-> "none", model |-> <<>>, limit |-> 0]

SetThread(t) ==
    /\ messages' = t.messages
    /\ messages_ids' = t.messages_ids
    /\ tokens' = t.tokens
    /\ token_limit' = t.token_limit
    /\ self_model' = t.model

----------------------------------------------------------------------------
(* Calls on a MessagesList                                                  *)

\* create_messages_list: MessagesList(cog, ctx) then _init(prompt)
CallInit(prompt) ==
    /\ pc = "new"
    /\ SetThread(_init(prompt))
    /\ pc' = "ready"
    /\ last' = [NoCall EXCEPT !.op = "_init", !.prompt = prompt]
    /\ UNCHANGED <<cfg, channel, calls, lim>>

CallAddMsg(id, index, force) ==
    /\ pc = "ready"
    /\ calls < MaxCalls
    /\ SetThread(add_msg(Thread, id, index, force))
    /\ calls' = calls + 1
    /\ last' = [NoCall EXCEPT !.op = "add_msg", !.id = id, !.force = force, !.index = index,
                              !.dup = (id \in messages_ids)]
    /\ UNCHANGED <<cfg, channel, pc, lim>>

CallAddSystem(content, index) ==
    /\ pc = "ready"
    /\ calls < MaxCalls
    /\ SetThread(add_system(Thread, content, index))
    /\ calls' = calls + 1
    /\ last' = [NoCall EXCEPT !.op = "add_system", !.index = index]
    /\ UNCHANGED <<cfg, channel, pc, lim>>

CallCheckIfAdd(id, force) ==
    /\ pc = "ready"
    /\ last' = [NoCall EXCEPT !.op = "check_if_add", !.id = id, !.force = force,
                              !.dup = (id \in messages_ids),
                              !.ret = check_if_add(Thread, id, force)]
    /\ UNCHANGED <<cfg, channel, messages, messages_ids, tokens, token_limit, self_model, pc, calls, lim>>

CallAddHistory(draw) ==
    /\ pc = "ready"
    /\ calls < MaxCalls
    /\ LET r == add_history(Thread, draw)
       IN  /\ SetThread(r.t)
           /\ last' = [NoCall EXCEPT !.op = "add_history", !.draw = draw, !.raised = r.raised,
                                     !.rm_count = r.rm_count, !.notices = r.notices,
                                     !.walked = r.walked, !.past = r.past,
                                     !.fetched = r.fetched, !.log = r.log]
    /\ calls' = calls + 1
    /\ UNCHANGED <<cfg, channel, pc, lim>>

NextThread ==
    \/ \E prompt \in Prompts : CallInit(prompt)
    \/ \E id \in DOMAIN channel, index \in Indexes, force \in BOOLEAN : CallAddMsg(id, index, force)
    \/ \E content \in SystemTexts, index \in Indexes : CallAddSystem(content, index)
    \/ \E id \in DOMAIN channel, force \in BOOLEAN : CallCheckIfAdd(id, force)
    \/ \E draw \in Draws : CallAddHistory(draw)

InitThreadState ==
    /\ messages = <<>>
    /\ messages_ids = {}
    /\ tokens = 0
    /\ token_limit = 0
    /\ self_model = <<>>
    /\ pc = "new"
    /\ calls = 0
    /\ last = NoCall
    /\ lim = IdleLim

----------------------------------------------------------------------------
(* Consent: who wrote the messages, who opted in or out                     *)

Cycle == <<"A", "B", "C", "bot">>
CycleAuthor(i, shift) == Cycle[((i + shift) % 4) + 1]

\* history [A, B, C, ...] rotated by shift, the triggering message by the author
\* of message 1; the triggering message replies to message 2, message 1 to the
\* oldest message, message 3 holds the word the regex ignores
ConsentChannel(shift) ==
    [i \in 0..MaxHist |->
        Msg(IF i = 0 THEN CycleAuthor(0, shift) ELSE CycleAuthor(i - 1, shift),
            100 - i,
            IF i = 0 THEN 2 ELSE IF i = 1 THEN MaxHist ELSE NoRef,
            IF i = 3 THEN <<"spam">> ELSE <<"hi">>, 0, FALSE)]

\* the guild's policies tried: the base one (opt-in {A}, opt-out {B}, nothing
\* else set) and its variations
Policies ==
    { BaseCfg,
      [BaseCfg EXCEPT !.optin_disable_embed = TRUE],
      [BaseCfg EXCEPT !.optin = {"A", "B"}],
      [BaseCfg EXCEPT !.optin_by_default = TRUE],
      [BaseCfg EXCEPT !.optin = {"A", "B"}, !.optin_by_default = TRUE],
      [BaseCfg EXCEPT !.blocked = {"A"}],
      [BaseCfg EXCEPT !.ignore_regex = "spam"],
      [BaseCfg EXCEPT !.custom_model_tokens_limit = 2],
      [BaseCfg EXCEPT !.optin_by_default = TRUE, !.blocked = {"A"}, !.ignore_regex = "spam"] }

InitConsent ==
    /\ InitThreadState
    /\ \E shift \in 0..3 : channel = ConsentChannel(shift)
    /\ cfg \in Policies

SpecConsent == InitConsent /\ [][NextThread]_vars

----------------------------------------------------------------------------
(* Properties of the consent gating (SpecConsent)                           *)

\* the Entries derived from message id
EntriesOf(id) == {i \in 1..Len(messages) : messages[i].src = id}

\* C1: no Entry of the thread is derived from a message whose author is in
\* the opt-out set, whatever add_msg calls (forced or not, direct, by reply
\* expansion or by the history walk) were made, also when the author is in the
\* opt-in set too.
C1_NoOptOutEntry ==
    \A i \in 1..Len(messages) :
        messages[i].src # SysSrc => channel[messages[i].src].author \notin cfg.optout

\* a forced add_msg of a message whose author is in both consent sets was made
\* on a thread that holds Entries of other messages
C1_Witness ==
    /\ last.op = "add_msg"
    /\ last.force
    /\ channel[last.id].author \in (cfg.optout \cap cfg.optin)
    /\ tokens <= token_limit
    /\ messages_ids # {}

\* C5: add_msg without force of a message whose id is already recorded
\* changes neither messages nor messages_ids nor tokens (so its reply
\* reference is not expanded again).
C5_DuplicateIsNoOp ==
    [][(last'.op = "add_msg" /\ ~last'.force /\ last'.dup)
         => UNCHANGED <<messages, messages_ids, tokens>>]_vars

\* an unforced add_msg of a recorded message that replies to another message
\* was made within the budget
C5_Witness ==
    /\ last.op = "add_msg"
    /\ ~last.force
    /\ last.dup
    /\ channel[last.id].reference # NoRef
    /\ tokens <= token_limit

\* the scenario of C7: default-allow false, opt-in {A}, opt-out {B}, the
\* candidates are the messages of A, B and C in this order, nobody is blocked
\* and the budget is not exceeded
C7_Scenario ==
    /\ last.op = "add_history"
    /\ ~cfg.optin_by_default
    /\ cfg.optin = {"A"}
    /\ cfg.optout = {"B"}
    /\ cfg.blocked = {}
    /\ last.past = <<1, 2, 3>>
    /\ channel[1].author = "A"
    /\ channel[2].author = "B"
    /\ channel[3].author = "C"
    /\ tokens <= token_limit

C7_Entries ==
    /\ EntriesOf(1) # {}
    /\ EntriesOf(2) = {}
    /\ EntriesOf(3) = {}

\* C7 as stated: in the scenario the thread has an Entry of A's message, none
\* of B's and C's, and a consent notice naming exactly {C} is sent.
C7_Original ==
    C7_Scenario => (C7_Entries /\ last.notices = <<{"C"}>>)

\* C7 amended: in the scenario the thread has an Entry of A's message, none of
\* B's and C's, and one consent notice naming exactly {C} is sent when the
\* guild does not suppress the consent embed and the random draw is at most
\* 0.33; otherwise no notice is sent.
C7_Amended ==
    C7_Scenario =>
        /\ C7_Entries
        /\ last.notices = IF ~cfg.optin_disable_embed /\ last.draw <= 33
                           THEN <<{"C"}>> ELSE <<>>

C7_Witness == C7_Scenario /\ last.notices = <<{"C"}>> /\ last.walked = <<1, 2>>

\* the six reasons of C8 for which check_if_add refuses a message
C8_Refused(id, force) ==
    \/ tokens > token_limit
    \/ (id \in messages_ids /\ ~force)
    \/ (cfg.ignore_regex # NoRegex /\ RegexSearch(cfg.ignore_regex, channel[id].content))
    \/ ~allowed_by_whitelist_blacklist(channel[id].author)
    \/ channel[id].author \in cfg.optout
    \/ (channel[id].author # BotId /\ channel[id].author \notin cfg.optin
            /\ ~cfg.optin_by_default)

\* C8: check_if_add(message, force) returns False exactly when one of the six
\* reasons holds and True otherwise, and it changes no thread state.
C8_CheckIfAdd ==
    [][last'.op = "check_if_add"
         => /\ last'.ret = ~C8_Refused(last'.id, last'.force)
            /\ UNCHANGED <<messages, messages_ids, tokens, token_limit>>]_vars

\* check_if_add accepted a message of the bot, which is in no consent set, in
\* a guild that does not default to allow-all
C8_Witness ==
    /\ last.op = "check_if_add"
    /\ last.ret
    /\ channel[last.id].author = BotId
    /\ BotId \notin cfg.optin
    /\ ~cfg.optin_by_default

----------------------------------------------------------------------------
(* History walk: time gaps, replies and the opt-in notice (SpecWalk)        *)

\* the sets of wide gaps tried: i is in the set when message i is 11 seconds
\* older than message i - 1; otherwise it is 10 seconds older, which is the
\* guild's max gap
WideGaps == { {}, {1}, {2}, {3}, {2, 3} }

RECURSIVE TimeOf(_, _)
TimeOf(wide, i) ==
    IF i = 0 THEN 100 ELSE TimeOf(wide, i - 1) - (IF i \in wide THEN 11 ELSE 10)

\* every message is text of the opted-in user A, except message embed (if not
\* 0), which is the bot's opt-in notice; message 1 may reply to the oldest
\* message and message 2 to message 1
WalkChannel(wide, ref1, ref2, embed) ==
    [i \in 0..MaxHist |->
        Msg(IF i = embed /\ i # 0 THEN BotId ELSE "A",
            TimeOf(wide, i),
            IF i = 1 THEN ref1 ELSE IF i = 2 THEN ref2 ELSE NoRef,
            <<"hi">>, 0, i = embed /\ i # 0)]

\* the reply / notice patterns tried: <<ref1, ref2, embed>>; in the last one
\* message 1 replies to the notice
WalkPatterns ==
    { <<NoRef, NoRef, 0>>, <<MaxHist, NoRef, 0>>, <<NoRef, 1, 0>>, <<MaxHist, 1, 0>>,
      <<NoRef, NoRef, 1>>, <<NoRef, NoRef, 2>>, <<2, NoRef, 2>> }

InitWalk ==
    /\ InitThreadState
    /\ cfg = BaseCfg
    /\ \E wide \in WideGaps, p \in WalkPatterns :
          channel = WalkChannel(wide, p[1], p[2], p[3])

SpecWalk == InitWalk /\ [][NextThread]_vars

IsChatEntry(i) == messages[i].role \in {"user", "assistant"}

\* C2: after _init followed by add_history the user / assistant Entries are
\* in non-decreasing order of the creation time of their source messages,
\* whatever the reply references between the messages.
C2_OldestFirst ==
    (last.op = "add_history" /\ calls = 1) =>
        \A i, j \in 1..Len(messages) :
            (i < j /\ IsChatEntry(i) /\ IsChatEntry(j))
                => channel[messages[i].src].created_at <= channel[messages[j].src].created_at

\* 1-based position in the candidate list of the first pair of neighbours
\* further apart than max_seconds_gap (0 when there is none)
FirstGap(past) ==
    LET wide == {i \in 1..(Len(past) - 1) :
                    ~_is_valid_time_gap(past[i], past[i + 1], cfg.messages_backread_seconds)}
    IN  IF wide = {} THEN 0 ELSE Min(wide)

PositionIn(past, id) == CHOOSE i \in 1..Len(past) : past[i] = id

\* C6: when the candidates have a first pair (i, i+1) further apart than
\* max_seconds_gap, the walk passes no candidate after position i to add_msg.
C6_StopsAtFirstGap ==
    (last.op = "add_history" /\ FirstGap(last.past) # 0) =>
        \A k \in 1..Len(last.walked) :
            PositionIn(last.past, last.walked[k]) <= FirstGap(last.past)

----------------------------------------------------------------------------
(* Token accounting and the budget (SpecBudget)                             *)

Texts == {<<"hi">>, <<"hi", "yo">>}

\* messages of the opted-in user A one second apart; the texts of the
\* triggering message and of message 1 vary; message 1 may carry an image and
\* may reply to the oldest message; the oldest message may be empty
BudgetChannel(texts, images1, ref1, empty) ==
    [i \in 0..MaxHist |->
        Msg("A", 100 - i, IF i = 1 THEN ref1 ELSE NoRef,
            IF i = MaxHist /\ empty THEN <<>>
            ELSE IF i <= 1 THEN texts[i]
            ELSE IF i % 2 = 0 THEN <<"hi", "yo">> ELSE <<"hi">>,
            IF i = 1 THEN images1 ELSE 0, FALSE)]

\* the budgets tried, with the number of images of message 1: <<limit, images1>>
BudgetChoices == { <<3, 0>>, <<3, 1>>, <<5, 0>>, <<5, 1>>, <<300, 1>> }

\* <<ref1, empty>>
ReplyChoices == { <<NoRef, FALSE>>, <<MaxHist, FALSE>>, <<MaxHist, TRUE>> }

InitBudget ==
    /\ InitThreadState
    /\ \E b \in BudgetChoices, texts \in [0..1 -> Texts], r \in ReplyChoices :
          /\ cfg = [BaseCfg EXCEPT !.custom_model_tokens_limit = b[1]]
          /\ channel = BudgetChannel(texts, b[2], r[1], r[2])

SpecBudget == InitBudget /\ [][NextThread]_vars

\* the cost of an Entry as C3 states it
TextPartsOf(e) == {k \in 1..Len(e.content.parts) : e.content.parts[k].type = "text"}
ImagePartsOf(e) == {k \in 1..Len(e.content.parts) : e.content.parts[k].type = "image_url"}

RECURSIVE SumOver(_, _)
SumOver(S, f) ==
    IF S = {} THEN 0
    ELSE LET x == CHOOSE y \in S : TRUE IN f[x] + SumOver(S \ {x}, f)

Cost(e) ==
    IF e.content.isList
    THEN SumOver(TextPartsOf(e), [k \in TextPartsOf(e) |-> Encode(e.content.parts[k].text)])
            + 255 * Cardinality(ImagePartsOf(e))
    ELSE Encode(e.content.text)

\* C3: the running total tokens equals the sum of the costs of the Entries
\* in messages: the token count of a text Entry, and for a list-content Entry
\* the token counts of its text parts plus 255 per image_url part.
C3_TokensAreSumOfCosts ==
    tokens = SumOver(1..Len(messages), [i \in 1..Len(messages) |-> Cost(messages[i])])

\* a thread holding a system Entry, a list-content Entry with an image part
\* and a text Entry, after add_history
C3_Witness ==
    /\ last.op = "add_history"
    /\ \E i, j, k \in 1..Len(messages) :
          /\ messages[i].role = "system"
          /\ messages[j].content.isList /\ ImagePartsOf(messages[j]) # {}
          /\ messages[k].role = "user" /\ ~messages[k].content.isList

\* C4: every Entry was inserted when tokens <= token_limit, so tokens exceeds
\* token_limit by at most the cost of the one Entry whose insertion pushed it
\* over, and nothing (later candidate of the walk, reply expansion, add_system)
\* is inserted after that.
C4_NoInsertOverBudget ==
    /\ \A i \in 1..Len(messages) : messages[i].at <= token_limit
    /\ tokens > token_limit =>
          \E i \in 1..Len(messages) : messages[i].at + Cost(messages[i]) = tokens

\* the history walk passed one candidate to add_msg, the budget was exceeded
\* by it and the walk stopped before the remaining candidates
C4_Witness ==
    /\ last.op = "add_history"
    /\ tokens > token_limit
    /\ Len(last.walked) = 1
    /\ Len(last.past) > 2
    /\ EntriesOf(last.walked[1]) # {}

----------------------------------------------------------------------------
(* Token limit of a model id (SpecLimit)                                    *)

Prefixes == {<<>>, <<"o","p","e","n","a","i","/">>, <<"a","/","c","l","a","u","d","e","/">>}
Suffixes == {<<>>, <<":","f","r","e","e">>}
OtherModels ==
    { <<"g","p","t","-","4">>,
      <<"g","p","t","-","3",".","5","-","t","u","r","b","o">>,
      <<"g","p","t","-","4","-","3","2","k">>,
      <<"g","p","t","-","3",".","5","-","t","u","r","b","o","-","1","6","k">>,
      <<"c","l","a","u","d","e","-","3","-","o","p","u","s">>,
      <<"l","l","a","m","a","-","3",".","1","-","8","b">>,
      <<"t","e","x","t","-","8","k">>,
      <<"m","o","d","e","l","-","1","0","0","k">>,
      <<"d","a","v","i","n","c","i">> }

ModelIds == {p \o c \o s : p \in Prefixes, c \in TableKeys \cup OtherModels, s \in Suffixes}

InitLimit ==
    /\ cfg = BaseCfg
    /\ channel = <<>>
    /\ messages = <<>>
    /\ messages_ids = {}
    /\ tokens = 0
    /\ token_limit = 0
    /\ self_model = <<>>
    /\ pc = "idle"
    /\ calls = 0
    /\ last = NoCall
    /\ \E model \in ModelIds : lim = [fn |-> "none", model |-> model, limit |-> 0]

\* MessagesList._get_token_limit(model)
CallGetTokenLimit ==
    /\ pc = "idle"
    /\ lim' = [lim EXCEPT !.fn = "MessagesList", !.limit = _get_token_limit(lim.model)]
    /\ UNCHANGED threadVars

\* MessagesList_DM._get_token_limit(model)
CallGetTokenLimitDM ==
    /\ pc = "idle"
    /\ lim' = [lim EXCEPT !.fn = "MessagesList_DM", !.limit = DM_get_token_limit(lim.model)]
    /\ UNCHANGED threadVars

NextLimit == CallGetTokenLimit \/ CallGetTokenLimitDM

SpecLimit == InitLimit /\ [][NextLimit]_vars

\* the family markers of C9 in their check order, with their defaults
FamilyMarkers ==
    << [m |-> s_gpt4, v |-> 7000], [m |-> s_8k, v |-> 7000], [m |-> s_16k, v |-> 15000],
       [m |-> s_32k, v |-> 31000], [m |-> s_100k, v |-> 99000], [m |-> s_claude, v |-> 99000],
       [m |-> s_llama31, v |-> 123000] >>

Matching(model) == {i \in 1..Len(FamilyMarkers) : Contains(model, FamilyMarkers[i].m)}

TableValue(key) ==
    OTHER_MODELS_LIMITS[CHOOSE i \in 1..Len(OTHER_MODELS_LIMITS) : OTHER_MODELS_LIMITS[i].k = key].v

\* C9: when the final '/'-separated segment of the id is a key of
\* OTHER_MODELS_LIMITS, _get_token_limit returns that key's value whatever
\* family markers the id matches; otherwise the last matching family marker in
\* check order decides, and 3000 is returned when none matches.
C9_TableBeforeFamily ==
    lim.fn = "MessagesList" =>
        LET name == SplitLast(lim.model, "/")
        IN  IF name \in TableKeys THEN lim.limit = TableValue(name)
            ELSE IF Matching(lim.model) = {} THEN lim.limit = 3000
            ELSE lim.limit = FamilyMarkers[Max(Matching(lim.model))].v

\* "openai/gpt-4-1106-preview" resolved to 123000
C9_Witness ==
    /\ lim.fn = "MessagesList"
    /\ lim.model = <<"o","p","e","n","a","i","/">> \o
                   <<"g","p","t","-","4","-","1","1","0","6","-","p","r","e","v","i","e","w">>
    /\ lim.limit = 123000

\* C10: for a table key k, a provider prefix p and a variant suffix s,
\* MessagesList._get_token_limit("p/k:s") is the table value of k.
C10_PrefixAndSuffixStripped ==
    (/\ lim.fn = "MessagesList"
     /\ Positions(lim.model, "/") # {}
     /\ Positions(SplitLast(lim.model, "/"), ":") # {}
     /\ SplitFirst(SplitLast(lim.model, "/"), ":") \in TableKeys)
        => lim.limit = TableValue(SplitFirst(SplitLast(lim.model, "/"), ":"))

----------------------------------------------------------------------------
(* Shape of the thread after _init and add_history                          *)

SystemEntries == {i \in 1..Len(messages) : messages[i].role = "system"}

\* C11: after _init, and after an add_history that follows it, the thread has
\* exactly one system Entry and it is the first Entry, ahead of the Entry of
\* the triggering message and of every history Entry.
C11_OneLeadingSystem ==
    (last.op = "_init" \/ (last.op = "add_history" /\ calls = 1)) =>
        /\ Cardinality(SystemEntries) = 1
        /\ messages[1].role = "system"

\* the triggering message passes every test of check_if_add on a fresh thread
\* and its conversion is not empty
InitIncludable ==
    /\ check_if_add([messages |-> <<>>, messages_ids |-> {}, tokens |-> 0,
                     token_limit |-> token_limit, model |-> cfg.model], InitId, FALSE)
    /\ convert(InitId) # <<>>

\* C12 as stated: with an explicit prompt override the triggering message is
\* still added, so that after _init the thread holds the system Entry followed
\* by the Entry of the (includable) triggering message.
C12_Original ==
    (last.op = "_init" /\ last.prompt # <<>> /\ InitIncludable) =>
        /\ Len(messages) >= 2
        /\ messages[1].role = "system"
        /\ EntriesOf(InitId) # {}

\* C12 amended: with an explicit prompt override _init does not add the
\* triggering message: the thread holds the system Entry made from the
\* override and nothing else; only without an override is the (includable)
\* triggering message added by _init.
C12_Amended ==
    last.op = "_init" =>
        /\ last.prompt # <<>> =>
              /\ Len(messages) = 1
              /\ messages[1].role = "system"
              /\ messages[1].content = TextContent(format_variables(last.prompt))
              /\ messages_ids = {}
        /\ (last.prompt = <<>> /\ InitIncludable) =>
              /\ EntriesOf(InitId) # {}
              /\ InitId \in messages_ids

C12_Witness ==
    /\ last.op = "_init"
    /\ last.prompt # <<>>
    /\ InitIncludable
    /\ Len(messages) = 1

----------------------------------------------------------------------------
(* _init alone: the choice of the system prompt                             *)

\* a role of the author: not configured, configured without a prompt, or
\* configured with a prompt
RoleChoices(text) ==
    { [configured |-> FALSE, prompt |-> <<>>],
      [configured |-> TRUE, prompt |-> <<>>],
      [configured |-> TRUE, prompt |-> text] }

PlainChannel ==
    [i \in 0..MaxHist |-> Msg("A", 100 - 10 * i, NoRef, <<"hi">>, 0, FALSE)]

InitPrompt ==
    /\ \E member \in {<<>>, <<"member">>},
          r1 \in RoleChoices(<<"role1">>), r2 \in RoleChoices(<<"role2">>),
          chan \in {<<>>, <<"channel">>}, guild \in {<<>>, <<"guild">>},
          global \in {<<>>, <<"global", "{botname}">>} :
            cfg = [BaseCfg EXCEPT !.member_prompt = member, !.author_roles = <<r1, r2>>,
                                  !.channel_prompt = chan, !.guild_prompt = guild,
                                  !.global_prompt = global]
    /\ channel = PlainChannel
    /\ InitThreadState
    /\ pc = "new"
    /\ calls = 0
    /\ last = NoCall
    /\ lim = IdleLim

NextInit == \E prompt \in Prompts : CallInit(prompt)

SpecPrompt == InitPrompt /\ [][NextInit]_vars

ConfiguredRoles == {i \in 1..Len(cfg.author_roles) : cfg.author_roles[i].configured}

\* the prompt of the first role of the author that has a role configuration
RolePrompt ==
    IF ConfiguredRoles = {} THEN <<>>
    ELSE cfg.author_roles[CHOOSE i \in ConfiguredRoles : \A j \in ConfiguredRoles : i <= j].prompt

PromptSources ==
    <<last.prompt, cfg.member_prompt, RolePrompt, cfg.channel_prompt, cfg.guild_prompt,
      cfg.global_prompt, DEFAULT_PROMPT>>

FirstNonEmpty(seq) ==
    seq[CHOOSE i \in 1..Len(seq) : seq[i] # <<>> /\ \A j \in 1..(i - 1) : seq[j] = <<>>]

\* C13: the system prompt put in the thread by _init is the rendering of the
\* first non-empty of: the explicit override, the author's per-member prompt,
\* the prompt of the first configured role of the author, the per-channel
\* prompt, the per-guild prompt, the process-wide prompt, DEFAULT_PROMPT.
C13_PromptPrecedence ==
    last.op = "_init" =>
        /\ Cardinality(SystemEntries) = 1
        /\ \A i \in SystemEntries :
              messages[i].content = TextContent(format_variables(FirstNonEmpty(PromptSources)))

C13_Witness ==
    /\ last.op = "_init"
    /\ last.prompt = <<>>
    /\ cfg.member_prompt = <<>>
    /\ ~cfg.author_roles[1].configured
    /\ cfg.author_roles[2].prompt # <<>>
    /\ cfg.channel_prompt # <<>>
    /\ cfg.guild_prompt # <<>>
    /\ \E i \in SystemEntries : messages[i].content = TextContent(cfg.author_roles[2].prompt)

----------------------------------------------------------------------------
(* _init alone: the switch to the image-scanning model                      *)

AttachmentChoices == {<<>>, <<ImagePng>>, <<TextPlain>>, <<TextPlain, ImagePng>>}

\* the triggering message with the given attachments, replying to message 1
\* or to nothing; message 1 carries the attachments `replied`
ImageChannel(own, ref, replied) ==
    [i \in 0..MaxHist |->
        IF i = 0 THEN [Msg("A", 100, ref, <<"look">>, 0, FALSE) EXCEPT !.attachments = own]
        ELSE IF i = 1 THEN [Msg("A", 90, NoRef, <<"hi">>, 0, FALSE) EXCEPT !.attachments = replied]
        ELSE Msg("A", 100 - 10 * i, NoRef, <<"hi">>, 0, FALSE)]

InitImage ==
    /\ \E interaction \in BOOLEAN, scan \in BOOLEAN, mode \in {"ai-horde", ScanImageMode_LLM} :
          cfg = [BaseCfg EXCEPT !.interaction = interaction, !.scan_images = scan,
                                !.scan_images_mode = mode]
    /\ \E own \in AttachmentChoices, ref \in {NoRef, 1}, replied \in AttachmentChoices :
          channel = ImageChannel(own, ref, replied)
    /\ InitThreadState
    /\ pc = "new"
    /\ calls = 0
    /\ last = NoCall
    /\ lim = IdleLim

SpecImage == InitImage /\ [][NextInit]_vars

HasImage(id) ==
    \E k \in 1..Len(channel[id].attachments) : channel[id].attachments[k][1] = "image"

\* C14: _init switches the thread's model to scan_images_model only if the
\* triggering message or the message it replies to carries an image
\* attachment, scan_images is on, scan_images_mode is the LLM mode and the
\* invocation is not an interaction; otherwise the model stays the guild's
\* chat model.
C14_SwitchOnlyIf ==
    last.op = "_init" =>
        /\ self_model \in {cfg.model, cfg.scan_images_model}
        /\ self_model # cfg.model =>
              /\ \/ HasImage(InitId)
                 \/ channel[InitId].reference # NoRef /\ HasImage(channel[InitId].reference)
              /\ cfg.scan_images
              /\ cfg.scan_images_mode = ScanImageMode_LLM
              /\ ~cfg.interaction

C14_Witness ==
    /\ last.op = "_init"
    /\ self_model = cfg.scan_images_model
    /\ ~HasImage(InitId)
    /\ channel[InitId].reference # NoRef

----------------------------------------------------------------------------
(* The keyword filter and the first time-gap test of add_history            *)

KeywordSets == { {}, {1}, {2}, {1, 2}, {1, 3}, {1, 2, 3} }   \* the messages holding a keyword
Backreads == {0, 1, MaxHist - 1}                             \* messages_backread
FirstGaps == {10, 11}                   \* seconds between the trigger and message 1

\* messages 10 s apart after the first gap; message 2 is by the unopted user C
FilterChannel(kw, first_gap) ==
    [i \in 0..MaxHist |->
        Msg(IF i = 2 THEN "C" ELSE "A",
            IF i = 0 THEN 100 ELSE 100 - first_gap - 10 * (i - 1),
            NoRef,
            IF i \in kw THEN <<"fake", "news">> ELSE <<"hi">>, 0, FALSE)]

InitFilter ==
    /\ \E backread \in Backreads : cfg = [BaseCfg EXCEPT !.messages_backread = backread]
    /\ \E kw \in KeywordSets, first_gap \in FirstGaps : channel = FilterChannel(kw, first_gap)
    /\ InitThreadState
    /\ pc = "new"
    /\ calls = 0
    /\ last = NoCall
    /\ lim = IdleLim

SpecFilter == InitFilter /\ [][NextThread]_vars

\* the gap between the triggering message and the most recent fetched one
\* is wider than max_seconds_gap
TriggerGapTooWide(fetched) ==
    /\ fetched # <<>>
    /\ channel[InitId].created_at - channel[fetched[1]].created_at > cfg.messages_backread_seconds

\* C15: when the gap between the triggering message and the most recent
\* fetched message is strictly greater than max_seconds_gap, add_history
\* returns, leaves messages, messages_ids and tokens as they were and sends no
\* consent notice.
C15_WideGapReturnsUnchanged ==
    [][(last'.op = "add_history" /\ calls' = calls + 1 /\ TriggerGapTooWide(last'.fetched)) =>
          /\ ~last'.raised
          /\ UNCHANGED <<messages, messages_ids, tokens>>
          /\ last'.notices = <<>>]_vars

\* the same without the demand that the call returns normally
C15_WideGapFrame ==
    [][(last'.op = "add_history" /\ calls' = calls + 1 /\ TriggerGapTooWide(last'.fetched)) =>
          /\ UNCHANGED <<messages, messages_ids, tokens>>
          /\ last'.notices = <<>>]_vars

----------------------------------------------------------------------------
(* Chains of replies                                                        *)

\* every message replies to the one before it; the oldest replies to nothing,
\* or (cyclic) to the triggering message
ChainChannel(cyclic) ==
    [i \in 0..MaxHist |->
        Msg("A", 100 - 10 * i,
            IF i < MaxHist THEN i + 1 ELSE IF cyclic THEN InitId ELSE NoRef,
            <<"hi">>, 0, FALSE)]

ChainLimits == {0, 1, 2}     \* custom_model_tokens_limit (0: not set)

InitChain ==
    /\ \E limit \in ChainLimits : cfg = [BaseCfg EXCEPT !.custom_model_tokens_limit = limit]
    /\ \E cyclic \in BOOLEAN : channel = ChainChannel(cyclic)
    /\ InitThreadState
    /\ pc = "new"
    /\ calls = 0
    /\ last = NoCall
    /\ lim = IdleLim

SpecChain == InitChain /\ [][NextThread]_vars

\* the number of references followed from message `from` to reach message `to`
\* (more than MaxHist when it is not reached)
RECURSIVE Hops(_, _, _)
Hops(from, to, n) ==
    IF from = to THEN n
    ELSE IF channel[from].reference = NoRef \/ n > MaxHist THEN MaxHist + 1
    ELSE Hops(channel[from].reference, to, n + 1)

\* a depth cap below the length of the longest chain the channel holds
ExpansionCap == MaxHist - 1

\* C16: the reply expansion of add_msg is bounded by a maximum depth: of a
\* chain of replies longer than the cap, the messages more than cap references
\* away from the message handed to add_msg are not expanded (here the message
\* handed to add_msg is the trigger, by _init).
C16_ExpansionCapped ==
    (last.op = "_init" /\ last.prompt = <<>>) =>
        \A i \in 1..Len(messages) :
            messages[i].src # SysSrc => Hops(InitId, messages[i].src, 0) <= ExpansionCap

----------------------------------------------------------------------------
(* messages_ids against messages                                            *)

\* C17: in every reachable state messages_ids has at most as many elements as
\* messages has Entries, and every recorded id is the source of at least one
\* inserted Entry.
C17_IdsHaveEntries ==
    /\ Cardinality(messages_ids) <= Len(messages)
    /\ \A id \in messages_ids : EntriesOf(id) # {}

\* a message that gave two Entries, next to a call on a message whose
\* conversion is empty
C17_Witness ==
    /\ \E id \in messages_ids : Cardinality(EntriesOf(id)) >= 2
    /\ Cardinality(messages_ids) < Len(messages)
    /\ last.op = "add_msg"
    /\ convert(last.id) = <<>>
    /\ last.id \notin messages_ids

----------------------------------------------------------------------------
(* The consent notice: MessagesList, MessagesList_DM and MessageThread      *)

\* MessagesList_DM(cog, ctx) then _init(prompt)
CallInitDM(prompt) ==
    /\ pc = "new"
    /\ SetThread(DM_init(prompt))
    /\ pc' = "readyDM"
    /\ last' = [NoCall EXCEPT !.op = "DM._init", !.prompt = prompt]
    /\ UNCHANGED <<cfg, channel, calls, lim>>

CallAddHistoryDM ==
    /\ pc = "readyDM"
    /\ calls < MaxCalls
    /\ LET r == DM_add_history(Thread)
       IN  /\ SetThread(r.t)
           /\ last' = [NoCall EXCEPT !.op = "DM.add_history", !.raised = r.raised,
                                     !.rm_count = r.rm_count, !.notices = r.notices,
                                     !.walked = r.walked, !.past = r.past,
                                     !.fetched = r.fetched, !.log = r.log]
    /\ calls' = calls + 1
    /\ UNCHANGED <<cfg, channel, pc, lim>>

\* MessageThread(bot, config, initial_message): the dataclass defaults
CallMessageThread ==
    /\ pc = "new"
    /\ SetThread([messages |-> <<>>, messages_ids |-> {}, tokens |-> 0, token_limit |-> 0,
                  model |-> <<>>])
    /\ pc' = "readyMT"
    /\ last' = [NoCall EXCEPT !.op = "MessageThread"]
    /\ UNCHANGED <<cfg, channel, calls, lim>>

CallCreateContext ==
    /\ pc = "readyMT"
    /\ calls < MaxCalls
    /\ LET r == create_context(Thread)
       IN  /\ SetThread(r.t)
           /\ last' = [NoCall EXCEPT !.op = "create_context", !.raised = r.raised,
                                     !.rm_count = r.rm_count, !.notices = r.notices,
                                     !.walked = r.walked, !.past = r.past,
                                     !.fetched = r.fetched, !.log = r.log]
    /\ calls' = calls + 1
    /\ UNCHANGED <<cfg, channel, pc, lim>>

NextNotice ==
    \/ \E prompt \in Prompts : CallInit(prompt)
    \/ \E draw \in Draws : CallAddHistory(draw)
    \/ \E prompt \in Prompts : CallInitDM(prompt)
    \/ CallAddHistoryDM
    \/ CallMessageThread
    \/ CallCreateContext

\* the authors of messages 1, 2, ... (A opted in, B opted out, C..F neither,
\* bot and hook are bots); later messages are by A
AuthorLists ==
    { <<"C", "D", "E", "F">>, <<"C", "D", "E", "A">>, <<"C", "D", "B", "hook">>,
      <<"A", "B", "bot", "hook">>, <<"A", "A", "A", "C">> }

NoticeChannel(authors, first_gap) ==
    [i \in 0..(MaxHist + 1) |->
        Msg(IF i = 0 \/ i > Len(authors) THEN "A" ELSE authors[i],
            IF i = 0 THEN 100 ELSE 100 - first_gap - (i - 1),
            NoRef, <<"hi">>, 0, FALSE)]

InitNotice ==
    /\ \E default \in BOOLEAN, disable \in BOOLEAN :
          cfg = [BaseCfg EXCEPT !.optin_by_default = default, !.optin_disable_embed = disable,
                                !.messages_backread = MaxHist + 1]
    /\ \E authors \in AuthorLists, first_gap \in FirstGaps :
          channel = NoticeChannel(authors, first_gap)
    /\ InitThreadState
    /\ pc = "new"
    /\ calls = 0
    /\ last = NoCall
    /\ lim = IdleLim

SpecNotice == InitNotice /\ [][NextNotice]_vars

\* the authors of the given messages that are human and in neither consent set
UnoptedAuthors(ids) ==
    {channel[ids[i]].author : i \in 1..Len(ids)} \ (Bots \cup cfg.optin \cup cfg.optout)

\* C18: when optin_by_default is true, MessagesList.add_history,
\* MessagesList_DM.add_history and MessageThread.create_context send no
\* consent notice, whatever history was fetched.
C18_NoNoticeUnderDefault ==
    (cfg.optin_by_default /\ last.op \in {"add_history", "DM.add_history", "create_context"}) =>
        last.notices = <<>>

\* create_context went through a history with unopted human authors
C18_Witness ==
    /\ cfg.optin_by_default
    /\ ~cfg.optin_disable_embed
    /\ last.op = "create_context"
    /\ last.walked # <<>>
    /\ UnoptedAuthors(last.fetched) # {}

\* C19: a call of MessagesList.add_history or MessagesList_DM.add_history
\* sends the consent notice at most once, only after the history walk, and
\* only if the set of unopted users is not empty and the guild does not
\* suppress the embed; every user named is a non-bot author of a fetched
\* message who is in neither the opt-in nor the opt-out set.
C19_NoticeOnceAfterWalk ==
    last.op \in {"add_history", "DM.add_history"} =>
        /\ Len(last.notices) <= 1
        /\ Cardinality({k \in 1..Len(last.log) : last.log[k] = "notice"}) = Len(last.notices)
        /\ last.notices # <<>> =>
              /\ Len(last.log) >= 2
              /\ last.log[Len(last.log)] = "notice"
              /\ last.log[Len(last.log) - 1] = "walk"
              /\ last.notices[1] # {}
              /\ ~cfg.optin_disable_embed
              /\ last.notices[1] \subseteq UnoptedAuthors(last.fetched)

C19_Witness ==
    /\ last.op = "DM.add_history"
    /\ last.walked # <<>>
    /\ last.notices # <<>>
    /\ Cardinality(last.notices[1]) >= 2
    /\ \E i \in 1..Len(last.fetched) : channel[last.fetched[i]].author \in cfg.optout
    /\ \E i \in 1..Len(last.fetched) : channel[last.fetched[i]].author \in Bots

\* C20: in MessagesList.add_history, when the call is not rejected early and
\* the embed is not suppressed, the notice is sent whatever the draw if more
\* than 3 distinct unopted users were found in the scanned messages, and with
\* 1 to 3 unopted users it is sent only when the draw is at most 0.33.
C20_NoticeDraw ==
    LET found == IF cfg.optin_by_default THEN {} ELSE UnoptedAuthors(Take(last.past, 10))
    IN  (/\ last.op = "add_history"
         /\ \E k \in 1..Len(last.log) : last.log[k] = "walk"
         /\ ~cfg.optin_disable_embed) =>
            /\ Cardinality(found) > 3 => last.notices = <<found>>
            /\ (Cardinality(found) \in 1..3 /\ last.notices # <<>>) => last.draw <= 33

\* four unopted users and a draw above 0.33: the notice is sent
C20_Witness ==
    /\ last.op = "add_history"
    /\ last.draw > 33
    /\ ~cfg.optin_disable_embed
    /\ last.notices # <<>>
    /\ Cardinality(last.notices[1]) > 3

----------------------------------------------------------------------------
(* Threads from which everything is excluded                                *)

\* the triggering message and every earlier message are by the opted-out user
\* B or by the unopted user C; the messages in kw hold a keyword
ExcludedChannel(kw) ==
    [i \in 0..MaxHist |->
        Msg(IF i % 2 = 0 THEN "B" ELSE "C", 100 - 10 * i, NoRef,
            IF i \in kw THEN <<"fake", "news">> ELSE <<"hi">>, 0, FALSE)]

InitExcluded ==
    /\ \E backread \in Backreads : cfg = [BaseCfg EXCEPT !.messages_backread = backread]
    /\ \E kw \in KeywordSets : channel = ExcludedChannel(kw)
    /\ InitThreadState
    /\ pc = "new"
    /\ calls = 0
    /\ last = NoCall
    /\ lim = IdleLim

SpecExcluded == InitExcluded /\ [][NextThread]_vars

\* the message can give no Entry: its author is refused by check_if_add, its
\* conversion is empty, or (for a fetched message) it holds a keyword
Excluded(id) ==
    \/ ~allowed_by_whitelist_blacklist(channel[id].author)
    \/ channel[id].author \in cfg.optout
    \/ channel[id].author # BotId /\ channel[id].author \notin cfg.optin /\ ~cfg.optin_by_default
    \/ cfg.ignore_regex # NoRegex /\ RegexSearch(cfg.ignore_regex, channel[id].content)
    \/ convert(id) = <<>>
    \/ id # InitId /\ HasKeyword(id)

\* C21: when the triggering message and every fetched message are excluded,
\* _init followed by add_history completes without raising and the thread is
\* exactly the system-prompt Entry.
C21_MinimalThread ==
    (/\ last.op = "add_history"
     /\ calls = 1
     /\ Excluded(InitId)
     /\ \A i \in 1..Len(last.fetched) : Excluded(last.fetched[i])) =>
        /\ ~last.raised
        /\ Len(messages) = 1
        /\ messages[1].role = "system"

\* the same without the demand that add_history does not raise
C21_MinimalThreadFrame ==
    (/\ last.op = "add_history"
     /\ calls = 1
     /\ Excluded(InitId)
     /\ \A i \in 1..Len(last.fetched) : Excluded(last.fetched[i])) =>
        /\ Len(messages) = 1
        /\ messages[1].role = "system"

----------------------------------------------------------------------------
(* MessageThread: the kinds of a message                                    *)

EmbedKinds == {"none", "invalid", "valid"}
KindAuthors == {"A", "B", "C"}

\* message 1 has the given features and author; the others are text of A
KindChannel(author, stickers, cached, attached, embed, text) ==
    [i \in 0..MaxHist |->
        IF i = 1
        THEN [Msg(author, 90, NoRef, IF text THEN <<"hi">> ELSE <<>>, 0, FALSE)
                EXCEPT !.stickers = stickers, !.cached = cached,
                       !.attachments = IF attached THEN <<ImagePng>> ELSE <<>>,
                       !.embeds = (embed # "none"), !.embed_valid = (embed = "valid")]
        ELSE Msg("A", 100 - 10 * i, NoRef, <<"hi">>, 0, FALSE)]

InitKinds ==
    /\ cfg = BaseCfg
    /\ \E author \in KindAuthors, stickers \in BOOLEAN, cached \in BOOLEAN, attached \in BOOLEAN,
          embed \in EmbedKinds, text \in BOOLEAN :
            channel = KindChannel(author, stickers, cached, attached, embed, text)
    /\ InitThreadState
    /\ pc = "new"
    /\ calls = 0
    /\ last = NoCall
    /\ lim = IdleLim

NextKinds == CallMessageThread \/ CallCreateContext

SpecKinds == InitKinds /\ [][NextKinds]_vars

\* what the one branch of message id gives, as [role, text] records
KindEntries(id) ==
    LET m == channel[id]
        role == IF m.author # BotId THEN "user" ELSE "assistant"
        E(r, text) == [role |-> r, text |-> text]
    IN  IF m.stickers THEN {E(role, format_sticker_content(id))}
        ELSE IF m.cached
             THEN {E(role, cached_rendering(id))} \cup
                  (IF m.content # <<>> THEN {E(role, format_text_content(id))} ELSE {})
        ELSE IF m.attachments # <<>> THEN {E("system", <<"A", "message", "was", "skipped">>)}
        ELSE IF m.embeds /\ m.embed_valid THEN {E(role, format_embed_content(id))}
        ELSE IF m.content # <<>> THEN {E(role, format_text_content(id))}
        ELSE {}

\* the Entries message id gave: its own and (only it has attachments) the system ones
KindAdded(id) == {i \in 1..Len(messages) : messages[i].src \in {id, SysSrc}}

MT_Includable(id) ==
    /\ allowed_by_whitelist_blacklist(channel[id].author)
    /\ channel[id].author \notin cfg.optout
    /\ channel[id].author \in cfg.optin \/ cfg.optin_by_default
    /\ ~(cfg.ignore_regex # NoRegex /\ RegexSearch(cfg.ignore_regex, channel[id].content))

\* C22: for every combination of features of a message of an includable
\* author, _add_contextual_message adds the Entries of exactly one branch, in
\* the precedence sticker, cached rendering (plus the text when there is one),
\* attachments without cached rendering (one system Entry), valid embed, plain
\* text; a message with no feature adds nothing.
C22_OneBranch ==
    (last.op = "create_context" /\ calls = 1 /\ MT_Includable(1)
        /\ \E k \in 1..Len(last.walked) : last.walked[k] = 1) =>
        /\ Cardinality(KindAdded(1)) = Cardinality(KindEntries(1))
        /\ {[role |-> messages[i].role, text |-> messages[i].content.text] : i \in KindAdded(1)}
             = KindEntries(1)

C22_Witness ==
    /\ last.op = "create_context"
    /\ calls = 1
    /\ MT_Includable(1)
    /\ ~channel[1].stickers /\ channel[1].cached /\ channel[1].attachments # <<>>
    /\ channel[1].embed_valid /\ channel[1].content # <<>>
    /\ Cardinality(KindAdded(1)) = 2

\* C26: in create_context a fetched message whose author is in the opt-out
\* set gives no Entry of any role, whatever the kind of the message.
C26_OptOutNoEntry ==
    (last.op = "create_context" /\ calls = 1 /\ channel[1].author \in cfg.optout) =>
        KindAdded(1) = {}

----------------------------------------------------------------------------
(* The settings commands (ai_user/settings.py); they act on cfg             *)

s_gpt35_turbo == <<"g","p","t","-","3",".","5","-","t","u","r","b","o">>
s_davinci == <<"d","a","v","i","n","c","i">>
s_gpt5 == <<"g","p","t","-","5">>

\* openai.Model.list(): what the provider may offer
ProviderLists == { {s_gpt4, s_gpt35_turbo, s_davinci}, {s_gpt4, s_davinci} }

\* the values the commands are invoked with
NewValues == {s_gpt4, s_gpt35_turbo, s_davinci, s_gpt5}

\* [model.id for model in models_list['data'] if model.id.startswith('gpt')]
gpt_models ==
    {m \in cfg.provider_models : Len(m) >= 3 /\ SubSeq(m, 1, 3) = <<"g", "p", "t">>}

\* config.guild(ctx.guild).set(new_value): the guild Group itself is set, to a
\* value that is not a dict; Group.set raises ValueError and stores nothing
guild_set(new_value) == [cfg |-> cfg, raised |-> TRUE]

\* settings.model
CallModel(new_value) ==
    /\ pc = "settings"
    /\ calls < MaxCalls
    /\ IF new_value \notin gpt_models
       THEN /\ cfg' = cfg
            /\ last' = [NoCall EXCEPT !.op = "model", !.value = new_value, !.old = cfg.model,
                                      !.log = <<"Invalid model">>]
       ELSE LET r == guild_set(new_value)
            IN  /\ cfg' = r.cfg
                /\ last' = [NoCall EXCEPT !.op = "model", !.value = new_value,
                                          !.old = cfg.model, !.raised = r.raised,
                                          !.log = IF r.raised THEN <<>>
                                                  ELSE <<"chat model is now set to">>]
    /\ calls' = calls + 1
    /\ UNCHANGED <<channel, messages, messages_ids, tokens, token_limit, self_model, pc, lim>>

\* settings.filter_responses
CallFilterResponses ==
    /\ pc = "settings"
    /\ calls < MaxCalls
    /\ LET value == ~cfg.global_filter_responses
       IN  /\ cfg' = [cfg EXCEPT !.filter_responses = value]
           /\ last' = [NoCall EXCEPT !.op = "filter_responses", !.old = cfg.filter_responses,
                                     !.log = <<"Filtering canned responses now set to">>]
    /\ calls' = calls + 1
    /\ UNCHANGED <<channel, messages, messages_ids, tokens, token_limit, self_model, pc, lim>>

NextSettings ==
    \/ \E new_value \in NewValues : CallModel(new_value)
    \/ CallFilterResponses

InitSettings ==
    /\ \E m \in {s_gpt4, s_gpt35_turbo}, guild \in BOOLEAN, global \in BOOLEAN,
          models \in ProviderLists :
            cfg = [BaseCfg EXCEPT !.model = m, !.filter_responses = guild,
                                  !.global_filter_responses = global,
                                  !.provider_models = models]
    /\ channel = <<>>
    /\ messages = <<>>
    /\ messages_ids = {}
    /\ tokens = 0
    /\ token_limit = 0
    /\ self_model = <<>>
    /\ pc = "settings"
    /\ calls = 0
    /\ last = NoCall
    /\ lim = IdleLim

SpecSettings == InitSettings /\ [][NextSettings]_vars

\* C23: after the model command is invoked with a value in the provider's
\* list of gpt models the guild's stored model equals that value; with a value
\* not in the list the stored model is unchanged and an 'Invalid model'
\* message is sent.
C23_ModelCommand ==
    last.op = "model" =>
        /\ last.value \in gpt_models => cfg.model = last.value
        /\ last.value \notin gpt_models =>
              (cfg.model = last.old /\ last.log = <<"Invalid model">>)

\* C24: every invocation of filter_responses sets the guild's filter_responses
\* to the negation of the guild's value before the invocation (so that two
\* invocations restore the original value).
C24_Toggle ==
    last.op = "filter_responses" => cfg.filter_responses = ~last.old

----------------------------------------------------------------------------
(* The budget of a MessagesList_DM (SpecBudgetDM)                           *)

CallAddMsgDM(id, index, force) ==
    /\ pc = "readyDM"
    /\ calls < MaxCalls
    /\ SetThread(DM_add_msg(Thread, id, index, force))
    /\ calls' = calls + 1
    /\ last' = [NoCall EXCEPT !.op = "DM.add_msg", !.id = id, !.force = force,
                              !.index = index, !.dup = (id \in messages_ids)]
    /\ UNCHANGED <<cfg, channel, pc, lim>>

NextBudgetDM ==
    \/ \E prompt \in Prompts : CallInitDM(prompt)
    \/ \E id \in 0..2, index \in Indexes, force \in BOOLEAN : CallAddMsgDM(id, index, force)
    \/ CallAddHistoryDM

\* a text of n words
Words(n) == [i \in 1..n |-> "w"]

\* the triggering message is a long text that leaves this many tokens of the
\* budget of the model; message 1 carries text and, possibly, an image
Headrooms == {2, 6, 12}

BudgetChannelDM(headroom, images1) ==
    [i \in 0..MaxHist |->
        Msg("A", 100 - i, NoRef,
            IF i = 0 THEN Words(DM_get_token_limit(s_gpt35_turbo) - headroom)
            ELSE IF i % 2 = 0 THEN <<"hi", "yo">> ELSE <<"hi">>,
            IF i = 1 THEN images1 ELSE 0, FALSE)]

InitBudgetDM ==
    /\ InitThreadState
    /\ cfg = [BaseCfg EXCEPT !.model = s_gpt35_turbo]
    /\ \E headroom \in Headrooms, images1 \in 0..1 :
          channel = BudgetChannelDM(headroom, images1)

SpecBudgetDM == InitBudgetDM /\ [][NextBudgetDM]_vars

\* what MessagesList_DM._add_tokens charges for an Entry
CostDM(entry) == Encode(Str(entry.content))

\* C25: in a MessagesList_DM every Entry made by add_msg, the second and later
\* Entries of one message included, was appended when tokens <= token_limit, so
\* tokens exceeds token_limit by at most the cost of one Entry.
C25_NoAppendOverBudgetDM ==
    pc = "readyDM" =>
        /\ \A i \in 1..Len(messages) :
              messages[i].src # SysSrc => messages[i].at <= token_limit
        /\ tokens > token_limit =>
              \E i \in 1..Len(messages) : messages[i].at + CostDM(messages[i]) = tokens

----------------------------------------------------------------------------
(* The keyword filter of MessagesList.add_history (SpecKeyword, SpecFilter) *)

\* the messages that hold a keyword: none, one, runs of consecutive ones
KeywordRuns == { {}, {1}, {3}, {1, 2}, {2, 3}, {1, 2, 3} }

\* messages of the opted-in user A, one second apart
KeywordChannel(kw) ==
    [i \in 0..MaxHist |->
        Msg("A", 100 - i, NoRef,
            IF i \in kw THEN <<"fake", "news">> ELSE <<"hi">>, 0, FALSE)]

InitKeyword ==
    /\ cfg = BaseCfg
    /\ \E kw \in KeywordRuns : channel = KeywordChannel(kw)
    /\ InitThreadState

SpecKeyword == InitKeyword /\ [][NextThread]_vars

\* C27: after the keyword filter of MessagesList.add_history no candidate
\* contains a keyword, so the walk passes no message containing a keyword to
\* add_msg, also when several consecutive fetched messages contain one.
C27_NoKeywordCandidate ==
    (last.op = "add_history" /\ ~last.raised) =>
        /\ \A i \in 1..Len(last.past) : ~HasKeyword(last.past[i])
        /\ \A k \in 1..Len(last.walked) : ~HasKeyword(last.walked[k])

\* C28: MessagesList.add_history returns normally for every fetched history,
\* and when no candidate is left (nothing fetched, or every fetched message
\* removed by the keyword filter) it leaves messages, messages_ids and tokens
\* as they were.
C28_HistoryNeverRaises ==
    [][(last'.op = "add_history" /\ calls' = calls + 1) =>
          /\ ~last'.raised
          /\ (last'.past = <<>> => UNCHANGED <<messages, messages_ids, tokens>>)]_vars

\* C29: the walk of MessagesList.add_history never passes the last candidate
\* (the oldest fetched message) to add_msg, so it processes at most
\* messages_backread messages, and a history of a single message leaves the
\* thread as it was.
C29_OldestNeverWalked ==
    [][(last'.op = "add_history" /\ calls' = calls + 1 /\ ~last'.raised) =>
          /\ \A k \in 1..Len(last'.walked) : last'.walked[k] # last'.past[Len(last'.past)]
          /\ \A k \in 1..Len(last'.walked) : last'.walked[k] # last'.fetched[Len(last'.fetched)]
          /\ Len(last'.walked) <= cfg.messages_backread
          /\ (Len(last'.past) = 1 => UNCHANGED <<messages, messages_ids, tokens>>)]_vars

\* messages_backread + 1 candidates, every one but the oldest was walked
C29_Witness ==
    /\ last.op = "add_history"
    /\ cfg.messages_backread > 0
    /\ Len(last.past) = cfg.messages_backread + 1
    /\ Len(last.walked) = cfg.messages_backread

----------------------------------------------------------------------------
(* The bot's opt-in notice in the history (SpecWalk)                        *)

\* C30: the thread built by _init and add_history holds no Entry made of a
\* message of the bot whose first embed has the opt-in notice title, whether
\* the walk meets the message or a walked message replies to it.
C30_NoticeNeverAnEntry ==
    (last.op = "add_history" /\ calls = 1) =>
        \A i \in 1..Len(messages) :
            messages[i].src # SysSrc => ~IsOptinEmbed(messages[i].src)

----------------------------------------------------------------------------
(* Reply references that form cycles (SpecCycle)                            *)

\* message.reference of every message: a chain to the oldest message, the same
\* chain closed through the triggering message, every message replying to
\* itself, and messages 1 and 2 replying to each other
RefGraphs ==
    { [i \in 0..MaxHist |-> IF i < MaxHist THEN i + 1 ELSE NoRef],
      [i \in 0..MaxHist |-> IF i < MaxHist THEN i + 1 ELSE InitId],
      [i \in 0..MaxHist |-> i],
      [i \in 0..MaxHist |-> IF i = 0 THEN 1 ELSE IF i = 1 THEN 2 ELSE IF i = 2 THEN 1 ELSE NoRef] }

CycleChannel(refs) ==
    [i \in 0..MaxHist |-> Msg("A", 100 - i, refs[i], <<"hi">>, 0, FALSE)]

\* custom_model_tokens_limit: too small for the chain, and large enough for it
CycleLimits == {4, 20}

InitCycle ==
    /\ \E limit \in CycleLimits : cfg = [BaseCfg EXCEPT !.custom_model_tokens_limit = limit]
    /\ \E refs \in RefGraphs : channel = CycleChannel(refs)
    /\ InitThreadState

SpecCycle == InitCycle /\ [][NextThread]_vars

\* the number of Entries of the thread made of message id
CountOf(msgs, id) == Cardinality({i \in 1..Len(msgs) : msgs[i].src = id})

\* C31: the reply expansion of add_msg ends for every reference graph, cycles
\* included, and processes each message at most once: in one call (_init,
\* add_msg, add_history) a message gains at most the Entries of one conversion,
\* and a message that already has Entries gains some only when it is itself
\* the argument of an add_msg call with force.
C31_ExpandedOnce ==
    [][\A id \in DOMAIN channel :
          /\ CountOf(messages', id) - CountOf(messages, id) <= Len(convert(id))
          /\ (CountOf(messages, id) > 0 /\ CountOf(messages', id) > CountOf(messages, id))
                => (last'.op = "add_msg" /\ last'.force /\ last'.id = id)]_vars

\* a call went round a cycle of replies: the message handed to add_msg and the
\* message that replies back to it both have their Entry, once
C31_Witness ==
    /\ last.op = "add_msg"
    /\ \E id \in DOMAIN channel :
          /\ id # last.id
          /\ channel[id].reference = last.id
          /\ Hops(last.id, id, 0) <= MaxHist
          /\ CountOf(messages, id) = 1
          /\ CountOf(messages, last.id) = 1
    /\ tokens <= token_limit

----------------------------------------------------------------------------
(* ChatResponse (aiuser/response/chat/response.py): a response is the      *)
(* sequence of its characters, a CJK character written as its code point    *)

ChunkSize == 2000       \* characters per delivered chunk

\* the alternatives of the pattern of ChatResponse.send
BlockedPatterns ==
    { <<"u653f","u6cbb">>, <<"u9886","u5bfc","u4eba">>,
      <<"p","o","l","i","t","i","c","s">>, <<"l","e","a","d","e","r","s">>,
      <<"r","o","l","e","p","l","a","y">>, <<"r","o","l","e","-","p","l","a","y">>,
      <<"u7981","u6b62","u4efb","u4f55","u5f62","u5f0f","u7684","u89d2","u8272","u626e","u6f14">> }

\* re.search(r"...|...", response): some alternative occurs at some position
BlockedSearch(response) ==
    \E p \in BlockedPatterns : \E i \in 1..(Len(response) - Len(p) + 1) :
        \A j \in 1..Len(p) : response[i + j - 1] = p[j]

\* the text that takes the place of a blocked response
RefusalText ==
    <<"u62b1","u6b49","uff0c","u5f53","u524d","A","I","u56de","u590d","u53ef","u80fd","u4e0d","u5408","u9002","uff0c","u4e0d","u4e88","u5c55","u793a">>

\* the f-string sent to the user to notify: a fixed prefix naming the author,
\* then the response between two fences of three backticks
NoticeText(response) ==
    <<"u7528","u6237"," ","A"," ","A","I","u56de","u590d","u5f02","u5e38","uff0c","u5185","u5bb9","u4e3a">>
        \o <<"backtick","backtick","backtick">> \o response \o <<"backtick","backtick","backtick">>

\* [response[i:i + 2000] for i in range(0, len(response), 2000)], from offset i
RECURSIVE Chunks(_, _)
Chunks(response, i) ==
    IF i >= Len(response) THEN <<>>
    ELSE <<SubSeq(response, i + 1, IF i + ChunkSize > Len(response) THEN Len(response)
                                   ELSE i + ChunkSize)>>
         \o Chunks(response, i + ChunkSize)

\* ChatResponse.is_reply: fetch_ok, whether ctx.fetch_message succeeded;
\* seconds, the age of the message; draw, random.random() in hundredths;
\* last_is_me, whether the last message of the channel is the bot's
is_reply(fetch_ok, seconds, draw, last_is_me) ==
    IF cfg.interaction THEN FALSE
    ELSE IF ~fetch_ok THEN FALSE
    ELSE IF seconds > 8 \/ draw < 25 THEN TRUE
    ELSE last_is_me

Delivery(via, text) == [via |-> via, text |-> text]

\* delivery that replies whenever it may, whatever the length
deliver_reply_first(response, replies) ==
    IF cfg.can_reply /\ replies THEN <<Delivery("reply", response)>>
    ELSE IF Len(response) >= ChunkSize
    THEN LET chunks == Chunks(response, 0)
         IN  [k \in 1..Len(chunks) |-> Delivery("send", chunks[k])]
    ELSE IF cfg.interaction THEN <<Delivery("followup", response)>>
    ELSE <<Delivery("send", response)>>

\* the delivery statements of send (lines 48-58)
deliver(response, replies) ==
    IF Len(response) >= ChunkSize
    THEN LET chunks == Chunks(response, 0)
         IN  [k \in 1..Len(chunks) |-> Delivery("send", chunks[k])]
    ELSE IF cfg.can_reply /\ replies THEN <<Delivery("reply", response)>>
    ELSE IF cfg.interaction THEN <<Delivery("followup", response)>>
    ELSE <<Delivery("send", response)>>

\* ChatResponse.send; generated is what chat.generate_message() returned (<<>>
\* for None or ""), ntfuser whether bot.get_user found the user to notify (on
\* None, ntfuser.send raises AttributeError), replies the result of is_reply
send(generated, ntfuser, replies) ==
    IF generated = <<>>
    THEN [ret |-> FALSE, raised |-> FALSE, response |-> generated, notices |-> <<>>, log |-> <<>>]
    ELSE IF BlockedSearch(generated) /\ ~ntfuser
    THEN [ret |-> FALSE, raised |-> TRUE, response |-> generated, notices |-> <<>>, log |-> <<>>]
    ELSE LET blocked == BlockedSearch(generated)
             response == IF blocked THEN RefusalText ELSE generated
             notices == IF blocked THEN <<NoticeText(generated)>> ELSE <<>>
         IN  IF response = <<>>
             THEN [ret |-> FALSE, raised |-> FALSE, response |-> response,
                   notices |-> notices, log |-> <<>>]
             ELSE [ret |-> TRUE, raised |-> FALSE, response |-> response,
                   notices |-> notices, log |-> deliver(response, replies)]

\* a text of n characters after the given start
Padded(start, n) == start \o [i \in 1..(n - Len(start)) |-> "x"]

\* what the generator returns: nothing, short texts, texts around one and two
\* chunks, with and without a blocked word
Generated ==
    { <<>>, <<"o","k">>, <<"h","i">>, <<"r","o","l","e">>, <<"r","o","l","e","p","l","a","y">>,
      <<"n","o"," ","p","o","l","i","t","i","c","s">>,
      <<"u626e","u6f14"," ","r","o","l","e","-","p","l","a","y">> }
    \cup { Padded(<<"o","k">>, n) : n \in {ChunkSize - 1, ChunkSize, 2 * ChunkSize + 1} }
    \cup { Padded(<<"l","e","a","d","e","r","s">>, ChunkSize) }

\* ChatResponse(ctx, config, chat).send()
CallSend(generated, ntfuser, fetch_ok, seconds, draw, last_is_me) ==
    /\ pc = "chat"
    /\ calls < MaxCalls
    /\ LET r == send(generated, ntfuser, is_reply(fetch_ok, seconds, draw, last_is_me))
       IN  last' = [NoCall EXCEPT !.op = "send", !.value = generated, !.ret = r.ret,
                                  !.raised = r.raised, !.response = r.response,
                                  !.notices = r.notices, !.log = r.log]
    /\ calls' = calls + 1
    /\ UNCHANGED <<cfg, channel, messages, messages_ids, tokens, token_limit, self_model, pc, lim>>

\* what is_reply meets, one case per return statement of it:
\* <<fetch_ok, seconds, draw, last_is_me>>
ReplyCases ==
    { <<FALSE, 9, 24, TRUE>>, <<TRUE, 9, 25, FALSE>>, <<TRUE, 8, 24, FALSE>>,
      <<TRUE, 8, 25, TRUE>>, <<TRUE, 8, 25, FALSE>> }

NextChat ==
    \E generated \in Generated, ntfuser \in BOOLEAN, c \in ReplyCases :
        CallSend(generated, ntfuser, c[1], c[2], c[3], c[4])

InitChat ==
    /\ \E interaction \in BOOLEAN, can_reply \in BOOLEAN :
          cfg = [BaseCfg EXCEPT !.interaction = interaction, !.can_reply = can_reply]
    /\ channel = <<>>
    /\ messages = <<>>
    /\ messages_ids = {}
    /\ tokens = 0
    /\ token_limit = 0
    /\ self_model = <<>>
    /\ pc = "chat"
    /\ calls = 0
    /\ last = NoCall
    /\ lim = IdleLim

SpecChat == InitChat /\ [][NextChat]_vars

\* the texts of the deliveries, one after the other
RECURSIVE Concat(_, _)
Concat(log, k) == IF k > Len(log) THEN <<>> ELSE log[k].text \o Concat(log, k + 1)

\* C32: a send call that ends with a non-empty final response delivers it
\* whole and in order, in messages of at most 2000 characters: 2000 characters
\* or more go out as consecutive 2000-character chunks through the channel
\* send, fewer as one message through one of reply, follow-up and channel
\* send; when the generator returns nothing, send returns False and delivers
\* nothing.
C32_DeliversResponse ==
    (last.op = "send" /\ ~last.raised) =>
        /\ last.value = <<>> => (~last.ret /\ last.log = <<>>)
        /\ last.response # <<>> =>
              /\ last.ret
              /\ Concat(last.log, 1) = last.response
              /\ \A k \in 1..Len(last.log) : Len(last.log[k].text) <= ChunkSize
              /\ Len(last.response) >= ChunkSize =>
                    \A k \in 1..Len(last.log) :
                        /\ last.log[k].via = "send"
                        /\ k < Len(last.log) => Len(last.log[k].text) = ChunkSize
              /\ Len(last.response) < ChunkSize =>
                    /\ Len(last.log) = 1
                    /\ last.log[1].via \in {"reply", "followup", "send"}

\* a response of two chunks and one character went out in three messages
C32_Witness ==
    /\ last.op = "send"
    /\ Len(last.response) = 2 * ChunkSize + 1
    /\ Len(last.log) = 3
    /\ last.ret

\* C33: a generated response that matches the blocked pattern is replaced by
\* the refusal text before anything is delivered, only the refusal text goes
\* to the channel, and the user to notify gets the original text exactly
\* once; a response that does not match is delivered as generated and nobody
\* is notified.
C33_BlockedIsReplaced ==
    (last.op = "send" /\ last.value # <<>>) =>
        IF BlockedSearch(last.value)
        THEN /\ last.response = RefusalText
             /\ Concat(last.log, 1) = RefusalText
             /\ last.notices = <<NoticeText(last.value)>>
        ELSE /\ Concat(last.log, 1) = last.value
             /\ last.notices = <<>>

----------------------------------------------------------------------------
(* The whitelist commands of ai_user/settings.py (SpecWhitelist);           *)
(* cfg.cached_options is cached_options.get(guild.id): <<>> when the guild  *)
(* has no entry, else the one dict                                          *)

NoChannel == 0                  \* the channel argument is None
ChannelIds == {1, 2, 3}         \* channel.id

\* Python: lst.remove(x), for x in lst
RemoveFirst(lst, x) ==
    LET k == Min({i \in 1..Len(lst) : lst[i] = x})
    IN  SubSeq(lst, 1, k - 1) \o SubSeq(lst, k + 1, Len(lst))

InList(x, lst) == \E i \in 1..Len(lst) : lst[i] = x

\* settings.cache_guild_options, on the options c
cache_guild_options(c) ==
    [c EXCEPT !.cached_options = <<[channels_whitelist |-> c.channels_whitelist,
                                    reply_percent |-> c.reply_percent]>>]

\* add that appends without looking for the channel in the list
add_without_test(channel_id) ==
    IF channel_id = NoChannel
    THEN [cfg |-> cfg, log |-> <<"Invalid channel mention, use #channel">>]
    ELSE LET new_whitelist == Append(cfg.channels_whitelist, channel_id)
         IN  [cfg |-> cache_guild_options([cfg EXCEPT !.channels_whitelist = new_whitelist]),
              log |-> <<"The server whitelist is now">>]

\* settings.add
add(channel_id) ==
    IF channel_id = NoChannel
    THEN [cfg |-> cfg, log |-> <<"Invalid channel mention, use #channel">>]
    ELSE IF InList(channel_id, cfg.channels_whitelist)
    THEN [cfg |-> cfg, log |-> <<"Channel already in whitelist">>]
    ELSE LET new_whitelist == Append(cfg.channels_whitelist, channel_id)
         IN  [cfg |-> cache_guild_options([cfg EXCEPT !.channels_whitelist = new_whitelist]),
              log |-> <<"The server whitelist is now">>]

\* settings.remove
remove(channel_id) ==
    IF channel_id = NoChannel
    THEN [cfg |-> cfg, log |-> <<"Invalid channel mention, use #channel">>]
    ELSE IF ~InList(channel_id, cfg.channels_whitelist)
    THEN [cfg |-> cfg, log |-> <<"Channel not in whitelist">>]
    ELSE LET new_whitelist == RemoveFirst(cfg.channels_whitelist, channel_id)
         IN  [cfg |-> cache_guild_options([cfg EXCEPT !.channels_whitelist = new_whitelist]),
              log |-> <<"The server whitelist is now">>]

\* the commands come in sequences of up to MaxCalls + 1
CallAdd(channel_id) ==
    /\ pc = "settings"
    /\ calls < MaxCalls + 1
    /\ LET r == add(channel_id)
       IN  /\ cfg' = r.cfg
           /\ last' = [NoCall EXCEPT !.op = "add", !.id = channel_id, !.log = r.log]
    /\ calls' = calls + 1
    /\ UNCHANGED <<channel, messages, messages_ids, tokens, token_limit, self_model, pc, lim>>

CallRemove(channel_id) ==
    /\ pc = "settings"
    /\ calls < MaxCalls + 1
    /\ LET r == remove(channel_id)
       IN  /\ cfg' = r.cfg
           /\ last' = [NoCall EXCEPT !.op = "remove", !.id = channel_id, !.log = r.log]
    /\ calls' = calls + 1
    /\ UNCHANGED <<channel, messages, messages_ids, tokens, token_limit, self_model, pc, lim>>

NextWhitelist ==
    \/ \E channel_id \in ChannelIds \cup {NoChannel} : CallAdd(channel_id)
    \/ \E channel_id \in ChannelIds \cup {NoChannel} : CallRemove(channel_id)

\* the stored whitelist is free of duplicates; the guild has no cached options
\* yet, or the ones of its stored values
InitWhitelist ==
    /\ \E whitelist \in {<<>>, <<1>>, <<2, 1>>}, cached \in BOOLEAN :
          LET c == [BaseCfg EXCEPT !.channels_whitelist = whitelist]
          IN  cfg = IF cached THEN cache_guild_options(c) ELSE c
    /\ channel = <<>>
    /\ messages = <<>>
    /\ messages_ids = {}
    /\ tokens = 0
    /\ token_limit = 0
    /\ self_model = <<>>
    /\ pc = "settings"
    /\ calls = 0
    /\ last = NoCall
    /\ lim = IdleLim

SpecWhitelist == InitWhitelist /\ [][NextWhitelist]_vars

NoDuplicates(lst) == \A i, j \in 1..Len(lst) : lst[i] = lst[j] => i = j

\* an add of a listed channel, a remove of an unlisted one
WhitelistNoOp(c, op, channel_id) ==
    \/ op = "add" /\ InList(channel_id, c.channels_whitelist)
    \/ op = "remove" /\ channel_id # NoChannel /\ ~InList(channel_id, c.channels_whitelist)

\* C34: after every add and remove the guild's channels_whitelist has no
\* duplicate; adding a listed channel and removing an unlisted one leave the
\* stored whitelist and the cached options as they were; after a successful
\* add or remove the cached channels_whitelist equals the stored one, which
\* holds the added channel, or no longer holds the removed one.
C34_WhitelistKept ==
    [][/\ NoDuplicates(cfg'.channels_whitelist)
       /\ WhitelistNoOp(cfg, last'.op, last'.id) => cfg' = cfg
       /\ (last'.op \in {"add", "remove"} /\ last'.log = <<"The server whitelist is now">>) =>
             /\ cfg'.cached_options # <<>>
             /\ cfg'.cached_options[1].channels_whitelist = cfg'.channels_whitelist
             /\ (last'.op = "add") = InList(last'.id, cfg'.channels_whitelist)]_vars

\* a channel was added, then added again: the second add changed nothing
C34_Witness ==
    /\ last.op = "add"
    /\ last.log = <<"Channel already in whitelist">>
    /\ calls >= 2
    /\ Len(cfg.channels_whitelist) >= 2
    /\ cfg.cached_options # <<>>
    /\ cfg.cached_options[1].channels_whitelist = cfg.channels_whitelist
====
